---- MODULE Spec2Model ----
(***************************************************************************)
(* A model of BizzyChills/discord-bot: the map preference / weight store,  *)
(* the map pool panel, the premier event generator (add-events) and the    *)
(* event reminder sweep with its log-file dedup ledger.                    *)
(*                                                                         *)
(* Thirteen specifications share the variables:                            *)
(*   Spec          the preference store, pool and voting buttons           *)
(*   SpecCatalog   add-map, remove-map, add-note and the map pool panel    *)
(*   SpecSweep     the eventreminders task, the daily log switch, restarts *)
(*   SpecGen       the add-events command                                  *)
(*   SpecCalendar  cancel-event, cancel-practice, clear-schedule and       *)
(*                 add-practices                                           *)
(*   SpecSchedule  the sweep and the cancelling commands on one calendar   *)
(*   SpecRemind    the remind command, reminders.json and its replay       *)
(*   SpecOverlap   the sweep run by the loops of two TasksCog instances    *)
(*   SpecTwins     the sweep over a calendar that holds an event twice     *)
(*   SpecDerive    add-practices run again on its own practices            *)
(*   SpecEvening   the sweeps of one evening over events at 22:00, 23:00   *)
(*   SpecReady     SpecRemind with on_ready firing again                   *)
(*   SpecCleanup   the sweeps of a day, with fairness                      *)
(* Times are wall-clock seconds since 1970-01-01 00:00 of the bot's zone.  *)
(***************************************************************************)
EXTENDS Integers, Sequences, FiniteSets, TLC

VARIABLES
    map_preferences,  \* global_utils.map_preferences: map -> (user_id -> vote)
    map_weights,      \* global_utils.map_weights: ordered dict, a sequence of [map, weight]
    map_pool,         \* global_utils.map_pool
    panel,            \* the MapPoolPanel view: its state and its self.pool
    view,             \* the VotingButtons view that is on screen: its user, open, maps_left
    db,               \* ./local_storage/maps.db
    votes_cast,       \* number of votes applied so far (bounded by MaxVotes)
    practice_notes,   \* global_utils.practice_notes: the set of <<map, note id>> held
    clock,            \* wall clock, seconds
    events,           \* the scheduled events of the guilds, a sequence of records
    logs,             \* ./logs/<date>_stdout.log: day number -> set of reminder lines
    log_date,         \* global_utils.log_date (a day number)
    right_now,        \* the start-up entry of premier_reminder_times (time of day, seconds)
    sent,             \* how often each <<event id, reminder type>> was posted to a channel
    pre_restart,      \* the reminder lines that were on disk when the process last restarted
    restarts,         \* number of restarts so far (bounded by MaxRestarts)
    ran,              \* the tasks that have run at the present instant
    cooldowns,        \* <<command, guild>> -> the instant of its last use
    reminders,        \* global_utils.reminders: an ordered dict, a sequence of [key, items]
    reminders_json,   \* ./local_storage/reminders.json
    sleeping,         \* the remind commands that are in their await sleep(interval)
    replay,           \* the remember_reminders task: what is left of its loops
    posted,           \* the reminder messages sent to the channel, in the order sent
    sweeps,           \* the eventreminders invocations of a second task loop in flight
    op                \* the last operation and what it observed

vars == <<map_preferences, map_weights, map_pool, panel, view, db, votes_cast,
          practice_notes, clock, events, logs, log_date, right_now, sent, pre_restart, restarts, ran,
          cooldowns, reminders, reminders_json, sleeping, replay, posted, sweeps, op>>

storeVars == <<map_preferences, map_weights, map_pool, panel, view, db, votes_cast,
               practice_notes>>
sweepVars == <<clock, events, logs, log_date, right_now, sent, pre_restart, restarts, ran,
               cooldowns>>
taskVars == <<reminders, reminders_json, sleeping, replay, posted, sweeps>>

(***************************************************************************)
(* Inputs and bounds                                                       *)
(***************************************************************************)
\* the map names the commands are called with, in sorted order
AllMaps == <<"ascent", "bind">>
MapNames == {AllMaps[i] : i \in DOMAIN AllMaps}
\* the maps the info table holds when the bot is first started
InitMaps == {"ascent"}
\* the user ids that press the voting buttons
Users == {"u1", "u2"}
\* the cap on the number of votes that change a preference in one behaviour
MaxVotes == 2
\* the message ids that add-note is called with
NoteIds == {1}

(***************************************************************************)
(* Preference store: helpers                                               *)
(***************************************************************************)
\* the values of the Like / Neutral / Dislike buttons
Preferences == {1, 0, -1}

\* the default of map_preferences[map].get(user_id, -2)
NoVote == -2

\* dict.get(key, default)
Get(d, k, default) == IF k \in DOMAIN d THEN d[k] ELSE default

\* sum(user_weights.values())
RECURSIVE SumVotes(_)
SumVotes(f) ==
    IF DOMAIN f = {} THEN 0
    ELSE LET u == CHOOSE x \in DOMAIN f : TRUE
         IN f[u] + SumVotes([x \in DOMAIN f \ {u} |-> f[x]])

\* map_weights[m]
Weight(m) ==
    LET i == CHOOSE j \in DOMAIN map_weights : map_weights[j].map = m
    IN map_weights[i].weight

WeightKeys(w) == {w[i].map : i \in DOMAIN w}

\* insert one item into a sequence already in descending weight order, after its equals
RECURSIVE InsertDesc(_, _)
InsertDesc(s, x) ==
    IF s = <<>> THEN <<x>>
    ELSE IF Head(s).weight >= x.weight THEN <<Head(s)>> \o InsertDesc(Tail(s), x)
    ELSE <<x>> \o s

\* sorted(items, key=weight, reverse=True): stable
RECURSIVE SortedDesc(_)
SortedDesc(s) ==
    IF s = <<>> THEN <<>>
    ELSE InsertDesc(SortedDesc(SubSeq(s, 1, Len(s) - 1)), s[Len(s)])

\* map_pool.copy(): the pool is kept as a sorted list
SortedPool(pool) == SelectSeq(AllMaps, LAMBDA m : m \in pool)

\* a panel whose selection is added to the pool instead of replacing it
PanelPoolAdded == IF panel.state = "alias" THEN map_pool ELSE map_pool \cup panel.pool

\* the list the panel holds in self.pool
PanelPool == IF panel.state = "alias" THEN map_pool ELSE panel.pool

(***************************************************************************)
(* Preference store: operations                                            *)
(***************************************************************************)
\* a save_preference that never takes the early return
UnchangedVoteNever(stored, preference) == FALSE

\* VotingButtons.save_preference: the early return on an unchanged value
UnchangedVote(stored, preference) == stored = preference

\* VotingButtons.save_preference: the weight after the vote
VotedWeight(weight, stored, preference) == weight + preference

\* PersistentView.vote_map_button and VotingButtons.__init__ / respond
vote_map_button(u) ==
    /\ view' = [user |-> u, open |-> map_pool # {}, maps_left |-> SortedPool(map_pool)]
    /\ op' = [name |-> "other"]
    /\ UNCHANGED <<map_preferences, map_weights, map_pool, panel, db, votes_cast,
                   practice_notes>>
    /\ UNCHANGED sweepVars
    /\ UNCHANGED taskVars

\* VotingButtons.skip
skip ==
    /\ view.open
    /\ view.maps_left # <<>>
    /\ LET rest == Tail(view.maps_left)
       IN view' = [view EXCEPT !.open = (rest # <<>>), !.maps_left = rest]
    /\ op' = [name |-> "other"]
    /\ UNCHANGED <<map_preferences, map_weights, map_pool, panel, db, votes_cast,
                   practice_notes>>
    /\ UNCHANGED sweepVars
    /\ UNCHANGED taskVars

\* VotingButtons.save_preference, lines 461-472: the first statement sent to maps.db
\* is "Start TRANSACTION", which SQLite does not parse (its keyword is BEGIN), so
\* cur.execute raises and neither the INSERT, the UPDATE nor the commit is reached
StoreAfterVote(store, u, map_name, preference, weight) == store

\* VotingButtons.like / neutral / dislike: save_preference(preference), then respond()
save_preference(preference) ==
    /\ view.open
    /\ view.maps_left # <<>>
    /\ LET u == view.user
           map_name == Head(view.maps_left)
           rest == Tail(view.maps_left)
           known == map_name \in DOMAIN map_preferences
           stored == IF known THEN Get(map_preferences[map_name], u, NoVote) ELSE NoVote
       IN
       /\ op' = [name |-> "save_preference", preference |-> preference,
                 stored |-> stored, known |-> known,
                 \* the statements sent to maps.db raised
                 raised |-> known /\ ~UnchangedVote(stored, preference)]
       /\ IF ~known
          THEN \* KeyError after the pop: respond() is not reached
               /\ view' = [view EXCEPT !.maps_left = rest]
               /\ UNCHANGED <<map_preferences, map_weights, db, votes_cast>>
          ELSE IF UnchangedVote(stored, preference)
          THEN /\ view' = [view EXCEPT !.open = (rest # <<>>), !.maps_left = rest]
               /\ UNCHANGED <<map_preferences, map_weights, db, votes_cast>>
          ELSE
               /\ votes_cast < MaxVotes
               /\ votes_cast' = votes_cast + 1
               /\ map_preferences' =
                     [map_preferences EXCEPT ![map_name] =
                         [x \in DOMAIN @ \cup {u} |-> IF x = u THEN preference ELSE @[x]]]
               /\ map_weights' =
                     [i \in DOMAIN map_weights |->
                         IF map_weights[i].map = map_name
                         THEN [map |-> map_name,
                               weight |-> VotedWeight(map_weights[i].weight, stored, preference)]
                         ELSE map_weights[i]]
               /\ db' = StoreAfterVote(db, u, map_name, preference,
                                       VotedWeight(Weight(map_name), stored, preference))
               \* the exception leaves the view as it is: respond() is not reached
               /\ view' = [view EXCEPT !.maps_left = rest]
    /\ UNCHANGED <<map_pool, panel, practice_notes>>
    /\ UNCHANGED sweepVars
    /\ UNCHANGED taskVars

\* a purge that does not look at the roster being empty
RosterKnownAlways(teammate_ids) == TRUE

\* Utils.save_preferences, line 143: if self.teammate_ids
RosterKnown(teammate_ids) == teammate_ids # {}

\* Utils.save_preferences, lines 145-147: the votes of the users on the roster
OnRoster(prefs, teammate_ids) == [u \in DOMAIN prefs \cap teammate_ids |-> prefs[u]]

\* Utils.save_weights: every weight becomes the sum of the votes, then the dict is
\* sorted by weight, largest first
SavedWeights(weights, preferences) ==
    SortedDesc([i \in DOMAIN weights |->
                   IF weights[i].map \in DOMAIN preferences
                   THEN [map |-> weights[i].map,
                         weight |-> SumVotes(preferences[weights[i].map])]
                   ELSE weights[i]])

\* Utils.save_preferences and Utils.save_weights. The two JSON files they write are
\* read by no code of the bot and are left out of the state.
save_preferences(teammate_ids) ==
    /\ map_preferences' =
          [m \in DOMAIN map_preferences |->
              IF RosterKnown(teammate_ids)
              THEN OnRoster(map_preferences[m], teammate_ids)
              ELSE map_preferences[m]]
    /\ map_weights' = SavedWeights(map_weights, map_preferences')
    /\ op' = [name |-> "save_preferences", teammate_ids |-> teammate_ids,
              purged |-> map_preferences' # map_preferences]
    /\ UNCHANGED <<map_pool, panel, view, db, votes_cast, practice_notes>>
    /\ UNCHANGED sweepVars
    /\ UNCHANGED taskVars

\* a row that enters the info table with the pool flag set
NewInfoRowInPool == [in_pool |-> TRUE, weight |-> 0]

\* AdminPremierCommands.add_map: INSERT INTO info VALUES (map_name, 0, 0, url)
NewInfoRow == [in_pool |-> FALSE, weight |-> 0]

\* AdminPremierCommands.add_map
add_map(map_name, fault) ==
    /\ op' = [name |-> "add_map", map_name |-> map_name,
              known |-> map_name \in DOMAIN map_preferences]
    /\ IF map_name \in DOMAIN map_preferences \/ fault
       THEN UNCHANGED <<map_preferences, map_weights, db>>
       ELSE /\ db' = [db EXCEPT
                         !.info = [m \in DOMAIN @ \cup {map_name} |->
                                      IF m = map_name THEN NewInfoRow ELSE @[m]],
                         !.preferences = @ \cup {map_name}]
            /\ map_preferences' =
                  [m \in DOMAIN map_preferences \cup {map_name} |->
                      IF m = map_name THEN <<>> ELSE map_preferences[m]]
            /\ map_weights' =
                  SortedDesc(<<[map |-> map_name, weight |-> 0]>> \o map_weights)
    /\ UNCHANGED <<map_pool, panel, view, votes_cast, practice_notes>>
    /\ UNCHANGED sweepVars
    /\ UNCHANGED taskVars

\* AdminPremierCommands.remove_map, lines 174-191: what its statements leave in maps.db.
\* The two DELETEs take effect as they are executed. The list cols keeps user_id, so
\* the CREATE TABLE of line 189 names the column user_id twice and raises; the
\* transaction begun at line 183 is rolled back when the connection is closed, which
\* restores the preferences table with the column of map_name.
StoreAfterRemove(store, map_name) ==
    [store EXCEPT !.info = [m \in DOMAIN @ \ {map_name} |-> @[m]],
                  !.notes = {r \in @ : r[2] # map_name}]

\* a remove_map that reaches line 193, global_utils.map_preferences.pop(map_name)
KnownAfterPop(preferences, map_name) ==
    [m \in DOMAIN preferences \ {map_name} |-> preferences[m]]

\* AdminPremierCommands.remove_map: the exception of the store leaves lines 193-195,
\* the pops of map_preferences, map_weights and map_image_urls, unreached
KnownAfterRemove(preferences, map_name) == preferences

\* AdminPremierCommands.remove_map
remove_map(map_name, fault) ==
    /\ op' = [name |-> "remove_map", map_name |-> map_name,
              known |-> map_name \in DOMAIN map_preferences]
    /\ IF map_name \notin DOMAIN map_preferences
       THEN UNCHANGED <<map_pool, db, map_preferences>>
       ELSE /\ map_pool' = map_pool \ {map_name}
            /\ db' = IF fault THEN db ELSE StoreAfterRemove(db, map_name)
            /\ map_preferences' = KnownAfterRemove(map_preferences, map_name)
    /\ UNCHANGED <<map_weights, panel, view, votes_cast, practice_notes>>
    /\ UNCHANGED sweepVars
    /\ UNCHANGED taskVars

\* AdminPremierCommands.addnote, called in the notes channel with the id of a message
\* that no note refers to yet
addnote(map_name, note_id) ==
    \* the choices of map_name are the keys of map_preferences
    /\ map_name \in DOMAIN map_preferences
    /\ \A r \in db.notes : r[1] # note_id
    /\ practice_notes' = practice_notes \cup {<<map_name, note_id>>}
    /\ db' = [db EXCEPT !.notes = @ \cup {<<note_id, map_name>>}]
    /\ op' = [name |-> "addnote", map_name |-> map_name]
    /\ UNCHANGED <<map_preferences, map_weights, map_pool, panel, view, votes_cast>>
    /\ UNCHANGED sweepVars
    /\ UNCHANGED taskVars

\* AdminPremierCommands.map_pool: MapPoolPanel.__init__ keeps the global list itself
map_pool_command ==
    /\ panel.state = "closed"
    /\ panel' = [state |-> "alias", pool |-> {}]
    /\ op' = [name |-> "other"]
    /\ UNCHANGED <<map_preferences, map_weights, map_pool, view, db, votes_cast,
                   practice_notes>>
    /\ UNCHANGED sweepVars
    /\ UNCHANGED taskVars

\* MapPoolPanel.map_list: the select menu (min_values = 1)
map_list(values) ==
    /\ panel.state # "closed"
    /\ values # {}
    /\ values \subseteq DOMAIN map_preferences
    /\ panel' = [state |-> "own", pool |-> values]
    /\ op' = [name |-> "other"]
    /\ UNCHANGED <<map_preferences, map_weights, map_pool, view, db, votes_cast,
                   practice_notes>>
    /\ UNCHANGED sweepVars
    /\ UNCHANGED taskVars

\* MapPoolPanel.clear_map: self.pool.clear() empties the list object in place
clear_map ==
    /\ panel.state # "closed"
    /\ IF panel.state = "alias"
       THEN /\ map_pool' = {}
            /\ UNCHANGED panel
       ELSE /\ panel' = [panel EXCEPT !.pool = {}]
            /\ UNCHANGED map_pool
    /\ op' = [name |-> "other"]
    /\ UNCHANGED <<map_preferences, map_weights, view, db, votes_cast, practice_notes>>
    /\ UNCHANGED sweepVars
    /\ UNCHANGED taskVars

\* MapPoolPanel.apply_changes
apply_changes(fault) ==
    /\ panel.state # "closed"
    /\ panel' = [state |-> "closed", pool |-> {}]
    /\ op' = [name |-> "apply_changes", pool |-> PanelPool,
              again |-> /\ map_pool = PanelPool
                        /\ \A m \in DOMAIN db.info : db.info[m].in_pool = (m \in PanelPool)]
    /\ IF fault
       THEN UNCHANGED <<map_pool, db>>
       ELSE /\ db' = [db EXCEPT !.info =
                         [m \in DOMAIN @ |->
                             IF m \in DOMAIN map_preferences
                             THEN [@[m] EXCEPT !.in_pool = (m \in PanelPool)]
                             ELSE @[m]]]
            /\ map_pool' = PanelPool
    /\ UNCHANGED <<map_preferences, map_weights, view, votes_cast, practice_notes>>
    /\ UNCHANGED sweepVars
    /\ UNCHANGED taskVars

(***************************************************************************)
(* Initial states                                                          *)
(***************************************************************************)
\* Utils.__init__ on a store that holds InitMaps, no vote and an empty pool
InitStore ==
    /\ db = [info |-> [m \in InitMaps |-> [in_pool |-> FALSE, weight |-> 0]],
             preferences |-> InitMaps, notes |-> {}]
    /\ practice_notes = {}
    /\ map_preferences = [m \in InitMaps |-> <<>>]
    /\ map_weights = SortedDesc(SelectSeq([i \in DOMAIN AllMaps |->
                                              [map |-> AllMaps[i], weight |-> 0]],
                                          LAMBDA r : r.map \in InitMaps))
    /\ map_pool = {}
    /\ panel = [state |-> "closed", pool |-> {}]
    /\ view = [user |-> CHOOSE u \in Users : TRUE, open |-> FALSE, maps_left |-> <<>>]
    /\ votes_cast = 0

\* no reminder is stored, no task is in flight
InitIdleTasks ==
    /\ reminders = <<>>
    /\ reminders_json = <<>>
    /\ sleeping = <<>>
    /\ replay = [queue |-> <<>>, i |-> 1]
    /\ posted = <<>>
    /\ sweeps = <<>>

InitIdleSweep ==
    /\ InitIdleTasks
    /\ clock = 0
    /\ events = <<>>
    /\ logs = <<>>
    /\ log_date = 0
    /\ right_now = 0
    /\ sent = <<>>
    /\ pre_restart = {}
    /\ restarts = 0
    /\ ran = {}
    /\ cooldowns = <<>>

Init ==
    /\ InitStore
    /\ InitIdleSweep
    /\ op = [name |-> "init"]

Next ==
    \/ \E u \in Users : vote_map_button(u)
    \/ skip
    \/ \E p \in Preferences : save_preference(p)
    \/ \E m \in MapNames : add_map(m, FALSE)
    \/ map_pool_command
    \/ \E values \in SUBSET MapNames : map_list(values)
    \/ clear_map
    \/ apply_changes(FALSE)
    \/ \E teammate_ids \in SUBSET Users : save_preferences(teammate_ids)

Spec == Init /\ [][Next]_vars

(***************************************************************************)
(* The map catalogue: add-map, remove-map, add-note and the map pool panel *)
(***************************************************************************)
\* the votes that map_preferences holds for ascent when the commands are called
HeldVotes == {<<>>, [u \in {"u1"} |-> 1], [u \in {"u1", "u2"} |-> -1]}

\* the bot runs on a store that holds InitMaps; users have voted on ascent
InitCatalog ==
    /\ \E held \in HeldVotes :
          /\ map_preferences = [m \in InitMaps |-> held]
          /\ map_weights = SelectSeq([i \in DOMAIN AllMaps |->
                                         [map |-> AllMaps[i], weight |-> SumVotes(held)]],
                                     LAMBDA r : r.map \in InitMaps)
    \* no vote has reached maps.db: save_preference raises before its INSERT
    /\ db = [info |-> [m \in InitMaps |-> [in_pool |-> FALSE, weight |-> 0]],
             preferences |-> InitMaps, notes |-> {}]
    /\ practice_notes = {}
    /\ map_pool = {}
    /\ panel = [state |-> "closed", pool |-> {}]
    /\ view = [user |-> CHOOSE u \in Users : TRUE, open |-> FALSE, maps_left |-> <<>>]
    /\ votes_cast = 0
    /\ InitIdleSweep
    /\ op = [name |-> "init"]

NextCatalog ==
    \/ \E m \in MapNames : add_map(m, FALSE)
    \/ \E m \in MapNames : remove_map(m, FALSE)
    \/ \E m \in MapNames, n \in NoteIds : addnote(m, n)
    \/ map_pool_command
    \/ \E values \in SUBSET MapNames : map_list(values)
    \/ clear_map
    \/ apply_changes(FALSE)

SpecCatalog == InitCatalog /\ [][NextCatalog]_vars

(***************************************************************************)
(* Time                                                                    *)
(***************************************************************************)
\* the 3600 of get_reminder_type
Hour == 3600
\* the 60 * 10 of get_reminder_type
TenMinutes == 60 * 10
DaySeconds == 24 * Hour
\* datetime.now().strftime("%Y-%m-%d"), as a day number
DateOf(t) == t \div DaySeconds
\* datetime.time()
TimeOfDay(t) == t % DaySeconds
\* datetime.weekday(): Monday is 0; 1970-01-01 was a Thursday
Weekday(day) == (day + 3) % 7
\* a Thursday: 2024-07-11
RefThursday == 7 * 2845

\* the instants at which the model lets the process be started or restarted
TickLen == TenMinutes
\* the number of ticks of the evening the sweep is followed through
MaxTicks == 12
\* the cap on the number of restarts in one behaviour
MaxRestarts == 1
\* the cap on the number of scheduled events the guilds hold
MaxEvents == 2
\* 22:50 on the Thursday
SweepStart == RefThursday * DaySeconds + 22 * Hour + 5 * TenMinutes
SweepEnd == SweepStart + MaxTicks * TickLen

\* Utils.__init__: right_now, five seconds after the start of the process
StartupDelay == 5
RightNowOf(t) == TimeOfDay(t + StartupDelay)
\* Utils.__init__: premier_reminder_times, 21:00:02, 22:00:02 and 23:00:02 and right_now
premier_reminder_times == {right_now, 21 * Hour + 2, 22 * Hour + 2, 23 * Hour + 2}
\* the time of the latest_logs loop, 00:00:05
LatestLogsTime == 5

\* tasks.loop(time=...): the next instant after the clock with the time of day T
Occurrence(T) ==
    LET base == clock - TimeOfDay(clock) + T
    IN IF base > clock THEN base ELSE base + DaySeconds

Min(S) == CHOOSE x \in S : \A y \in S : x <= y

NextInstant ==
    Min({clock - (clock % TickLen) + TickLen}
        \cup {Occurrence(T) : T \in premier_reminder_times \cup {LatestLogsTime}})

SweepDue == TimeOfDay(clock) \in premier_reminder_times
LatestLogsDue == TimeOfDay(clock) = LatestLogsTime

(***************************************************************************)
(* The scheduled events and the reminder sweep                             *)
(***************************************************************************)
debug_server_id == "debug"
val_server_id == "val"

\* a TasksCog that sweeps the production guild as well
do_event_reminders_on == TRUE

\* TasksCog.__init__: do_event_reminders, never assigned again
do_event_reminders == FALSE

\* str.lower() on the names and descriptions that occur
Lower(str) ==
    CASE str = "Premier" -> "premier"
      [] str = "Premier Playoffs" -> "premier playoffs"
      [] str = "Premier Practice" -> "premier practice"
      [] str = "Ascent" -> "ascent"
      [] str = "Bind" -> "bind"
      [] str = "Playoffs" -> "playoffs"
      [] OTHER -> str

\* "premier" in e.name.lower()
HasPremier(name) == Lower(name) \in {"premier", "premier playoffs", "premier practice"}

\* the events the guilds may hold when the sweep is followed: what add-events,
\* add-practices and the members of the guild have put on the calendars
EventsHeld ==
    <<[id |-> 1, guild_id |-> debug_server_id, name |-> "Premier", description |-> "Ascent",
       start_time |-> SweepStart + Hour + StartupDelay, status |-> "scheduled"],
      [id |-> 2, guild_id |-> debug_server_id, name |-> "Premier", description |-> "Ascent",
       start_time |-> SweepStart + Hour + StartupDelay + 1, status |-> "scheduled"],
      [id |-> 3, guild_id |-> debug_server_id, name |-> "Premier Practice", description |-> "Ascent",
       start_time |-> SweepStart + Hour + StartupDelay - 1, status |-> "scheduled"],
      [id |-> 4, guild_id |-> debug_server_id, name |-> "Premier Playoffs", description |-> "Playoffs",
       start_time |-> SweepStart + Hour + 3 * TenMinutes + StartupDelay, status |-> "scheduled"],
      [id |-> 5, guild_id |-> val_server_id, name |-> "Premier", description |-> "Ascent",
       start_time |-> SweepStart + Hour + StartupDelay, status |-> "scheduled"],
      [id |-> 6, guild_id |-> debug_server_id, name |-> "Game Night", description |-> "Ascent",
       start_time |-> SweepStart + Hour + StartupDelay, status |-> "scheduled"]>>

\* each of them an hour long
EventPool ==
    [i \in DOMAIN EventsHeld |->
        [id |-> EventsHeld[i].id, guild_id |-> EventsHeld[i].guild_id,
         name |-> EventsHeld[i].name, description |-> EventsHeld[i].description,
         start_time |-> EventsHeld[i].start_time,
         end_time |-> EventsHeld[i].start_time + Hour,
         status |-> EventsHeld[i].status]]

Calendars ==
    {SelectSeq(EventPool, LAMBDA e : e.id \in ids) :
        ids \in {x \in SUBSET {EventPool[i].id : i \in DOMAIN EventPool} :
                    Cardinality(x) <= MaxEvents}}

\* a get_reminder_type whose prestart window excludes one hour exactly
ReminderTypeOpenHour(time_remaining) ==
    IF time_remaining <= 0
    THEN IF time_remaining >= -TenMinutes THEN "start" ELSE ""
    ELSE IF time_remaining < Hour THEN "prestart" ELSE ""

\* TasksCog.get_reminder_type: the reminder type
ReminderType(time_remaining) ==
    IF time_remaining <= 0
    THEN IF time_remaining >= -TenMinutes THEN "start" ELSE ""
    ELSE IF time_remaining <= Hour THEN "prestart" ELSE ""

\* a get_reminder_type that removes the event as soon as the start window is over
StatusAfterNoGrace(time_remaining, status) ==
    IF time_remaining <= 0
    THEN IF time_remaining >= -TenMinutes
         THEN IF status = "scheduled" THEN "active" ELSE status
         ELSE IF status = "active" THEN "ended"
              ELSE IF status = "scheduled" THEN "cancelled" ELSE status
    ELSE status

\* a get_reminder_type that does not call event.start()
StatusAfterNotStarted(time_remaining, status) ==
    IF time_remaining <= -Hour
    THEN IF status = "active" THEN "ended"
         ELSE IF status = "scheduled" THEN "cancelled" ELSE status
    ELSE status

\* a get_reminder_type that starts events and never ends or cancels one
StatusAfterStartOnly(time_remaining, status) ==
    IF time_remaining <= 0 /\ time_remaining >= -TenMinutes /\ status = "scheduled"
    THEN "active" ELSE status

\* a get_reminder_type that ends an event that was never started
StatusAfterEndsScheduled(time_remaining, status) ==
    IF time_remaining <= 0
    THEN IF time_remaining >= -TenMinutes
         THEN IF status = "scheduled" THEN "active" ELSE status
         ELSE IF time_remaining <= -Hour
              THEN IF status \in {"active", "scheduled"} THEN "ended" ELSE status
              ELSE status
    ELSE status

\* TasksCog.get_reminder_type: event.start(), event.end(), event.cancel()
StatusAfter(time_remaining, status) ==
    IF time_remaining <= 0
    THEN IF time_remaining >= -TenMinutes
         THEN IF status = "scheduled" THEN "active" ELSE status
         ELSE IF time_remaining <= -Hour
              THEN IF status = "active" THEN "ended"
                   ELSE IF status = "scheduled" THEN "cancelled" ELSE status
              ELSE status
    ELSE status

\* sorted(new_events, key=start_time, reverse=True): stable, furthest first
RECURSIVE InsertLatestFirst(_, _)
InsertLatestFirst(s, e) ==
    IF s = <<>> THEN <<e>>
    ELSE IF Head(s).start_time >= e.start_time THEN <<Head(s)>> \o InsertLatestFirst(Tail(s), e)
    ELSE <<e>> \o s

RECURSIVE LatestFirst(_)
LatestFirst(s) ==
    IF s = <<>> THEN <<>>
    ELSE InsertLatestFirst(LatestFirst(SubSeq(s, 1, Len(s) - 1)), s[Len(s)])

RECURSIVE Concat(_)
Concat(ss) == IF ss = <<>> THEN <<>> ELSE Head(ss) \o Concat(Tail(ss))

\* TasksCog.get_all_events: the ids of the events to check, in the order of the sweep
get_all_events ==
    LET guild_ids == IF do_event_reminders
                     THEN <<val_server_id, debug_server_id>>
                     ELSE <<debug_server_id>>
        of(g) == LatestFirst(SelectSeq(events,
                                LAMBDA e : e.guild_id = g /\ HasPremier(e.name)))
    IN Concat([i \in DOMAIN guild_ids |-> of(guild_ids[i])])

\* TasksCog.eventreminders: log_time and log_message. The line holds the reminder type,
\* the name, the description and the start time of the event, to the second
LogMessage(reminder_type, event) ==
    [type |-> reminder_type, name |-> event.name,
     description |-> event.description, log_time |-> event.start_time]

\* the contents of ./logs/<date>_stdout.log
LogFile(files, date) == IF date \in DOMAIN files THEN files[date] ELSE {}

\* an already_logged that finds nothing
AlreadyLoggedNever(files, log_message) == FALSE

\* Utils.already_logged: a search of the log file of log_date, and of no other
already_logged(files, log_message) == log_message \in LogFile(files, log_date)

\* TasksCog.get_reminder_embed: global_utils.map_weights[map_name] raises KeyError
\* for a description that is not the name of a map
EmbedRaises(event) == Lower(event.description) \notin WeightKeys(map_weights)

\* Utils.log: append a line to the log file of log_date
Logged(files, date, line) ==
    [d \in DOMAIN files \cup {date} |->
        IF d = date THEN LogFile(files, d) \cup {line} ELSE files[d]]

Count(f, k) == IF k \in DOMAIN f THEN f[k] ELSE 0
Bump(f, k) == [x \in DOMAIN f \cup {k} |-> IF x = k THEN Count(f, k) + 1 ELSE f[x]]

SetStatus(evs, id, status) ==
    [i \in DOMAIN evs |-> IF evs[i].id = id THEN [evs[i] EXCEPT !.status = status] ELSE evs[i]]

\* TasksCog.eventreminders: the loop over the events. st is what the sweep has done so
\* far: the events, the log files, the postings, the lines it wrote, and what it saw
\* of each event
RECURSIVE SweepLoop(_, _, _)
SweepLoop(queue, now, st) ==
    IF queue = <<>> THEN st
    ELSE
    LET event == Head(queue)
        time_remaining == event.start_time - now
        reminder_type == ReminderType(time_remaining)
        status == StatusAfter(time_remaining, event.status)
        seen == [id |-> event.id, time_remaining |-> time_remaining,
                 reminder_type |-> reminder_type,
                 before |-> event.status, after |-> status]
        st1 == [st EXCEPT !.events = SetStatus(@, event.id, status),
                          !.results = @ \cup {seen}]
        log_message == LogMessage(reminder_type, event)
    IN IF reminder_type = "" THEN SweepLoop(Tail(queue), now, st1)
       ELSE IF already_logged(st1.logs, log_message)
       THEN SweepLoop(Tail(queue), now, st1)
       ELSE IF EmbedRaises(event) THEN [st1 EXCEPT !.raised = TRUE]
       ELSE SweepLoop(Tail(queue), now,
                [st1 EXCEPT !.posted = @ \cup {<<event.id, reminder_type>>},
                            !.logged = @ \cup {log_message},
                            !.logs = Logged(@, log_date, log_message)])

RECURSIVE BumpAll(_, _)
BumpAll(f, keys) ==
    IF keys = {} THEN f
    ELSE LET k == CHOOSE x \in keys : TRUE IN BumpAll(Bump(f, k), keys \ {k})

\* TasksCog.eventreminders, run by its loop at the times of premier_reminder_times
eventreminders ==
    /\ SweepDue
    /\ \/ "eventreminders" \notin ran
       \/ op.name = "eventreminders" /\ op.run = 1
    /\ LET done == SweepLoop(get_all_events, clock,
                     [events |-> events, logs |-> logs, results |-> {},
                      posted |-> {}, logged |-> {}, raised |-> FALSE])
       IN /\ events' = done.events
          /\ logs' = done.logs
          /\ sent' = BumpAll(sent, done.posted)
          /\ op' = [name |-> "eventreminders",
                    run |-> IF "eventreminders" \in ran THEN 2 ELSE 1,
                    results |-> done.results, posted |-> done.posted,
                    logged |-> done.logged, raised |-> done.raised]
    /\ ran' = ran \cup {"eventreminders"}
    /\ UNCHANGED <<clock, log_date, right_now, pre_restart, restarts, cooldowns>>
    /\ UNCHANGED storeVars
    /\ UNCHANGED taskVars

\* TasksCog.latest_logs, run by its loop at 00:00:05
latest_logs ==
    /\ LatestLogsDue
    /\ "latest_logs" \notin ran
    /\ log_date' = DateOf(clock)
    /\ ran' = ran \cup {"latest_logs"}
    /\ op' = [name |-> "other"]
    /\ UNCHANGED <<clock, events, logs, right_now, sent, pre_restart, restarts, cooldowns>>
    /\ UNCHANGED storeVars
    /\ UNCHANGED taskVars

\* the process is stopped and started again: Utils.__init__ and TasksCog.on_ready
Restart ==
    /\ restarts < MaxRestarts
    /\ clock <= SweepEnd
    /\ clock % TickLen = 0
    /\ restarts' = restarts + 1
    /\ log_date' = DateOf(clock)
    /\ right_now' = RightNowOf(clock)
    /\ pre_restart' = pre_restart \cup UNION {logs[d] : d \in DOMAIN logs}
    /\ ran' = {}
    /\ cooldowns' = <<>>
    \* map_info[m] is read for every column of the preferences table
    /\ db.preferences \subseteq DOMAIN db.info
    \* the notes table is created outside the repository: a restart is taken on a
    \* store without note rows only
    /\ db.notes = {}
    /\ practice_notes' = {}
    /\ map_preferences' = [m \in db.preferences |-> <<>>]
    /\ map_weights' = SortedDesc(SelectSeq([i \in DOMAIN AllMaps |->
                          [map |-> AllMaps[i],
                           weight |-> IF AllMaps[i] \in DOMAIN db.info
                                      THEN db.info[AllMaps[i]].weight ELSE 0]],
                          LAMBDA r : r.map \in db.preferences))
    /\ map_pool' = {m \in DOMAIN db.info : db.info[m].in_pool}
    /\ panel' = [state |-> "closed", pool |-> {}]
    /\ view' = [view EXCEPT !.open = FALSE, !.maps_left = <<>>]
    /\ op' = [name |-> "Restart"]
    /\ UNCHANGED <<clock, events, logs, sent, db, votes_cast>>
    /\ UNCHANGED taskVars

\* time passes up to the next instant at which something is due or may happen
Advance ==
    /\ clock <= SweepEnd
    /\ SweepDue => "eventreminders" \in ran
    /\ LatestLogsDue => "latest_logs" \in ran
    /\ clock' = NextInstant
    /\ ran' = {}
    /\ op' = [name |-> "other"]
    /\ UNCHANGED <<events, logs, log_date, right_now, sent, pre_restart, restarts,
                   cooldowns>>
    /\ UNCHANGED storeVars
    /\ UNCHANGED taskVars

\* the process is started at some instant of the evening, on some calendar
InitSweep ==
    /\ InitStore
    /\ clock \in {SweepStart + k * TickLen : k \in 0..MaxTicks}
    /\ events \in Calendars
    /\ logs = <<>>
    /\ log_date = DateOf(clock)
    /\ right_now = RightNowOf(clock)
    /\ sent = <<>>
    /\ pre_restart = {}
    /\ restarts = 0
    /\ ran = {}
    /\ cooldowns = <<>>
    /\ InitIdleTasks
    /\ op = [name |-> "init"]

NextSweep ==
    \/ eventreminders
    \/ latest_logs
    \/ Restart
    \/ Advance

SpecSweep == InitSweep /\ [][NextSweep]_vars

(***************************************************************************)
(* The sweep over a calendar that holds the same event twice               *)
(***************************************************************************)
\* two events of the debug guild with one name, one description and one start time,
\* as a member of the guild creates them
Twins == <<EventPool[1], [EventPool[1] EXCEPT !.id = Len(EventPool) + 1]>>

InitTwins ==
    /\ InitStore
    /\ clock \in {SweepStart + k * TickLen : k \in 0..MaxTicks}
    /\ events = Twins
    /\ logs = <<>>
    /\ log_date = DateOf(clock)
    /\ right_now = RightNowOf(clock)
    /\ sent = <<>>
    /\ pre_restart = {}
    /\ restarts = 0
    /\ ran = {}
    /\ cooldowns = <<>>
    /\ InitIdleTasks
    /\ op = [name |-> "init"]

SpecTwins == InitTwins /\ [][NextSweep]_vars

(***************************************************************************)
(* One evening of the sweep, the process up from 20:00, over events that   *)
(* start at 22:00 and at 23:00                                             *)
(***************************************************************************)
EveningStart == RefThursday * DaySeconds + 20 * Hour

\* the events of the debug guild, as add-events and add-practices name them
EveningEvents ==
    LET ev(id, n, d, hour) ==
            [id |-> id, guild_id |-> debug_server_id, name |-> n, description |-> d,
             start_time |-> RefThursday * DaySeconds + hour * Hour,
             end_time |-> RefThursday * DaySeconds + (hour + 1) * Hour,
             status |-> "scheduled"]
    IN <<ev(1, "Premier", "Ascent", 22),
         ev(2, "Premier", "Ascent", 23),
         ev(3, "Premier Practice", "Ascent", 23),
         ev(4, "Premier Playoffs", "Playoffs", 22)>>

EveningCalendars ==
    {SelectSeq(EveningEvents, LAMBDA e : e.id \in ids) :
        ids \in {x \in SUBSET {EveningEvents[i].id : i \in DOMAIN EveningEvents} :
                    Cardinality(x) <= MaxEvents}}

InitEvening ==
    /\ InitStore
    /\ clock = EveningStart
    /\ events \in EveningCalendars
    /\ logs = <<>>
    /\ log_date = DateOf(clock)
    /\ right_now = RightNowOf(clock)
    /\ sent = <<>>
    /\ pre_restart = {}
    /\ restarts = 0
    /\ ran = {}
    /\ cooldowns = <<>>
    /\ InitIdleTasks
    /\ op = [name |-> "init"]

NextEvening ==
    \/ eventreminders
    \/ latest_logs
    \/ Advance

SpecEvening == InitEvening /\ [][NextEvening]_vars

(***************************************************************************)
(* The sweep over a day, from 20:00 to the start-up sweep of the next day, *)
(* over the events of the evening and one that starts at 21:30, between    *)
(* two sweeps                                                              *)
(***************************************************************************)
CleanupEvents ==
    Append(EveningEvents,
           [EveningEvents[1] EXCEPT !.id = Len(EveningEvents) + 1,
                                    !.start_time = @ - 3 * TenMinutes,
                                    !.end_time = @ - 3 * TenMinutes])

InitCleanup ==
    /\ InitStore
    /\ clock = EveningStart
    /\ events \in {SelectSeq(CleanupEvents, LAMBDA e : e.id \in ids) :
                     ids \in {x \in SUBSET {CleanupEvents[i].id : i \in DOMAIN CleanupEvents} :
                                 Cardinality(x) <= MaxEvents}}
    /\ logs = <<>>
    /\ log_date = DateOf(clock)
    /\ right_now = RightNowOf(clock)
    /\ sent = <<>>
    /\ pre_restart = {}
    /\ restarts = 0
    /\ ran = {}
    /\ cooldowns = <<>>
    /\ InitIdleTasks
    /\ op = [name |-> "init"]

\* the last instant followed: the sweep of the start-up time of day, a day later
CleanupEnd == EveningStart + DaySeconds + StartupDelay

\* time passes up to the next instant at which a task is due, once the tasks that are
\* due now have run
Elapse ==
    /\ clock < CleanupEnd
    /\ SweepDue => "eventreminders" \in ran
    /\ LatestLogsDue => "latest_logs" \in ran
    /\ clock' = NextInstant
    /\ ran' = {}
    /\ op' = [name |-> "Elapse"]
    /\ UNCHANGED <<events, logs, log_date, right_now, sent, pre_restart, restarts,
                   cooldowns>>
    /\ UNCHANGED storeVars
    /\ UNCHANGED taskVars

NextCleanup ==
    \/ eventreminders
    \/ latest_logs
    \/ Elapse

\* the loops run at their times, and time goes on
SpecCleanup ==
    /\ InitCleanup
    /\ [][NextCleanup]_vars
    /\ WF_vars(eventreminders)
    /\ WF_vars(latest_logs)
    /\ WF_vars(Elapse)

(***************************************************************************)
(* add-events                                                              *)
(***************************************************************************)
\* the cap on the number of maps in one map_list
MaxItems == 2

Digits == <<"0", "1", "2", "3", "4", "5", "6", "7", "8", "9">>
IsDigit(c) == \E i \in DOMAIN Digits : Digits[i] = c
\* int() of one decimal digit
DigitOf(c) == (CHOOSE i \in DOMAIN Digits : Digits[i] = c) - 1
\* int() of a text of one or two decimal digits
IntOf(g) == IF Len(g) = 1 THEN DigitOf(g[1]) ELSE 10 * DigitOf(g[1]) + DigitOf(g[2])

\* the texts given as date, character by character
DateTexts ==
    {<<"0", "7", "/", "1", "1", "/", "2", "4">>,
     <<"7", "/", "1", "1", "/", "2", "4">>,
     <<"0", "7", "/", "1", "0", "/", "2", "4">>,
     <<"0", "7", "/", "1", "8", "/", "2", "4">>,
     <<"0", "2", "/", "3", "0", "/", "2", "4">>,
     <<"0", "7", "/", "1", "1", "/", "2", "0", "2", "4">>,
     <<"2", "0", "2", "4", "-", "0", "7", "-", "1", "1">>}

\* (0?[1-9]|1[0-2])
MonthPattern(g) ==
    \/ Len(g) = 1 /\ IsDigit(g[1]) /\ g[1] # "0"
    \/ Len(g) = 2 /\ g[1] = "0" /\ IsDigit(g[2]) /\ g[2] # "0"
    \/ Len(g) = 2 /\ g[1] = "1" /\ g[2] \in {"0", "1", "2"}

\* (0?[1-9]|[12][0-9]|3[01])
DayPattern(g) ==
    \/ Len(g) = 1 /\ IsDigit(g[1]) /\ g[1] # "0"
    \/ Len(g) = 2 /\ g[1] = "0" /\ IsDigit(g[2]) /\ g[2] # "0"
    \/ Len(g) = 2 /\ g[1] \in {"1", "2"} /\ IsDigit(g[2])
    \/ Len(g) = 2 /\ g[1] = "3" /\ g[2] \in {"0", "1"}

\* match(regex, date): the groups of the match at the start of the text, or <<>>
MatchGroups(date) ==
    LET cuts == {c \in (DOMAIN date) \X (DOMAIN date) :
                    /\ c[1] < c[2] /\ date[c[1]] = "/" /\ date[c[2]] = "/"
                    /\ MonthPattern(SubSeq(date, 1, c[1] - 1))
                    /\ DayPattern(SubSeq(date, c[1] + 1, c[2] - 1))
                    /\ c[2] + 2 <= Len(date)
                    /\ IsDigit(date[c[2] + 1]) /\ IsDigit(date[c[2] + 2])}
    IN IF cuts = {} THEN <<>>
       ELSE LET c == CHOOSE x \in cuts : TRUE
            IN <<SubSeq(date, 1, c[1] - 1), SubSeq(date, c[1] + 1, c[2] - 1),
                 SubSeq(date, c[2] + 1, c[2] + 2)>>

\* not matches or sum(len(g) for g in matches.groups()) != len(date) - 2
BadFormat(date) ==
    LET groups == MatchGroups(date)
    IN groups = <<>> \/ Len(groups[1]) + Len(groups[2]) + Len(groups[3]) # Len(date) - 2

IsLeap(year) == year % 4 = 0 /\ (year % 100 # 0 \/ year % 400 = 0)
DaysInMonth(year, month) ==
    IF month = 2 THEN (IF IsLeap(year) THEN 29 ELSE 28)
    ELSE IF month \in {4, 6, 9, 11} THEN 30 ELSE 31

\* the day number of a date of the calendar, 1970-01-01 being day 0
DaysFromCivil(year, month, day) ==
    LET y == IF month <= 2 THEN year - 1 ELSE year
        era == y \div 400
        yoe == y - era * 400
        mp == IF month > 2 THEN month - 3 ELSE month + 9
        doy == (153 * mp + 2) \div 5 + day - 1
        doe == yoe * 365 + yoe \div 4 - yoe \div 100 + doy
    IN era * 146097 + doe - 719468

\* datetime.strptime(f"{month}/{day}/{year}", "%m/%d/%y") after str(int(g)): the year
\* has lost its leading zero, and %y wants two digits and a day of the month that exists
StrptimeRaises(groups) ==
    \/ IntOf(groups[3]) < 10
    \/ IntOf(groups[2]) > DaysInMonth(2000 + IntOf(groups[3]), IntOf(groups[1]))

\* %y: 69 to 99 are 1969 to 1999, 0 to 68 are 2000 to 2068
Strptime(groups) ==
    LET yy == IntOf(groups[3])
    IN DaysFromCivil(IF yy < 69 THEN 2000 + yy ELSE 1900 + yy,
                     IntOf(groups[1]), IntOf(groups[2])) * DaySeconds

\* pytz: tz.localize raises ValueError for a datetime that has a tzinfo already
LocalizeRaises(d) == d.aware
Localize(d) == [d EXCEPT !.aware = TRUE]

\* AdminPremierCommands.convert_addevents_date: "format" and "weekday" are the two
\* messages that end in None, "raised" is the ValueError of strptime
convert_addevents_date(date) ==
    IF BadFormat(date) THEN [result |-> "format"]
    ELSE IF StrptimeRaises(MatchGroups(date)) THEN [result |-> "raised"]
    ELSE LET input_date == Localize([t |-> Strptime(MatchGroups(date)), aware |-> FALSE])
         IN IF Weekday(DateOf(input_date.t)) # 3 THEN [result |-> "weekday"]
            ELSE [result |-> "date", date |-> input_date]

\* the items given in map_list, as split(",") finds them
RawItems == {"ascent", " Bind", "haven"}
\* m.strip().lower()
StripLower(m) == IF m = " Bind" THEN "bind" ELSE Lower(m)
\* str.title()
Title(m) ==
    CASE m = "ascent" -> "Ascent"
      [] m = "bind" -> "Bind"
      [] m = "haven" -> "Haven"
      [] OTHER -> m

RECURSIVE SeqsUpTo(_, _)
SeqsUpTo(S, n) ==
    IF n = 0 THEN {<<>>}
    ELSE LET shorter == SeqsUpTo(S, n - 1)
         IN shorter \cup {Append(q, x) : q \in shorter, x \in S}

MapLists == SeqsUpTo(RawItems, MaxItems) \ {<<>>}

\* AdminPremierCommands.convert_addevents_maplist: <<>> stands for None
convert_addevents_maplist(maplist) ==
    LET new_maps == [i \in DOMAIN maplist |-> StripLower(maplist[i])]
        bad_maps == SelectSeq(new_maps, LAMBDA m : m \notin map_pool)
    IN IF bad_maps # <<>> THEN <<>> ELSE new_maps

\* AdminPremierCommands.addevents: thur_time, sat_time and sun_time
SlotTimes(thur_date) ==
    LET thur_time == [thur_date EXCEPT !.t = DateOf(@) * DaySeconds + 22 * Hour]
        sat_time == [thur_time EXCEPT !.t = DateOf(@ + 2 * DaySeconds) * DaySeconds + 23 * Hour]
        sun_time == [thur_time EXCEPT !.t = @ + 3 * DaySeconds]
    IN <<thur_time, sat_time, sun_time>>

\* AdminPremierCommands.addevents: the two loops, over the maps and over the three
\* start times of the week of each. The result holds the events created, in order,
\* and whether the output says that maps were skipped
RECURSIVE CreatedEvents(_, _, _, _, _, _)
CreatedEvents(new_maps, start_times, i, j, now, guild_id) ==
    IF i > Len(new_maps) THEN [created |-> <<>>, skipped |-> FALSE]
    ELSE IF j > Len(start_times)
    THEN CreatedEvents(new_maps,
                       [k \in DOMAIN start_times |-> start_times[k] + 7 * DaySeconds],
                       i + 1, 1, now, guild_id)
    ELSE LET rest == CreatedEvents(new_maps, start_times, i, j + 1, now, guild_id)
             start_time == start_times[j]
             playoffs == i = Len(new_maps) /\ j = Len(start_times)
         IN IF now > start_time THEN [rest EXCEPT !.skipped = TRUE]
            ELSE [rest EXCEPT !.created =
                     <<[guild_id |-> guild_id,
                        name |-> IF playoffs THEN "Premier Playoffs" ELSE "Premier",
                        description |-> IF playoffs THEN "Playoffs" ELSE Title(new_maps[i]),
                        start_time |-> start_time, end_time |-> start_time + Hour,
                        status |-> "scheduled"]>> \o @]

\* guild.create_scheduled_event: the events join the calendar with new ids
WithIds(evs, created) ==
    evs \o [k \in DOMAIN created |->
              [id |-> 100 + Len(evs) + k, guild_id |-> created[k].guild_id,
               name |-> created[k].name, description |-> created[k].description,
               start_time |-> created[k].start_time, end_time |-> created[k].end_time,
               status |-> created[k].status]]

\* app_commands.checks.cooldown(1, 300, key=guild id): one use in 300 seconds
CooldownSeconds == 300
\* the cooldown of a command is kept by guild
Cooling(command, guild_id, seconds) ==
    /\ <<command, guild_id>> \in DOMAIN cooldowns
    /\ clock - cooldowns[<<command, guild_id>>] < seconds
Used(command, guild_id) ==
    [k \in DOMAIN cooldowns \cup {<<command, guild_id>>} |->
        IF k = <<command, guild_id>> THEN clock ELSE cooldowns[k]]
OnCooldown(guild_id) == Cooling("add-events", guild_id, CooldownSeconds)

\* AdminPremierCommands.addevents
addevents(guild_id, maplist, date) ==
    LET new_maps == convert_addevents_maplist(maplist)
        thur_time == convert_addevents_date(date)
        given == [name |-> "addevents", guild_id |-> guild_id,
                  maplist |-> maplist, date |-> date]
    IN /\ ~OnCooldown(guild_id)
       /\ cooldowns' = Used("add-events", guild_id)
       /\ IF thur_time.result = "raised"
          THEN /\ op' = given @@ [result |-> "raised", created |-> <<>>, skipped |-> FALSE]
               /\ UNCHANGED events
          ELSE IF thur_time.result # "date" \/ new_maps = <<>>
          THEN /\ op' = given @@ [result |-> "rejected", created |-> <<>>,
                                  skipped |-> FALSE]
               /\ UNCHANGED events
          ELSE LET slots == SlotTimes(thur_time.date)
               IN IF \E k \in DOMAIN slots : LocalizeRaises(slots[k])
                  THEN /\ op' = given @@ [result |-> "raised", created |-> <<>>,
                                          skipped |-> FALSE]
                       /\ UNCHANGED events
                  ELSE LET start_times == [k \in DOMAIN slots |-> Localize(slots[k]).t]
                           done == CreatedEvents(new_maps, start_times, 1, 1,
                                                 clock, guild_id)
                       IN /\ events' = WithIds(events, done.created)
                          /\ op' = given @@ [result |-> "created",
                                             created |-> done.created,
                                             skipped |-> done.skipped]
       /\ UNCHANGED <<clock, logs, log_date, right_now, sent, pre_restart, restarts, ran>>
       /\ UNCHANGED storeVars
       /\ UNCHANGED taskVars

\* the guild in which add-events is given
GenGuilds == {debug_server_id}

\* the instants at which add-events is given: before the first slot of the week of
\* RefThursday, at it, a second after it, and after the week
GenClocks ==
    {RefThursday * DaySeconds + 12 * Hour,
     RefThursday * DaySeconds + 22 * Hour,
     RefThursday * DaySeconds + 22 * Hour + 1,
     (RefThursday + 4) * DaySeconds}

\* the process has been started on a database that holds the maps and their pool flags
InitGen ==
    /\ \E pool \in SUBSET MapNames :
          /\ db = [info |-> [m \in MapNames |-> [in_pool |-> m \in pool, weight |-> 0]],
                   preferences |-> MapNames, notes |-> {}]
          /\ map_pool = pool
    /\ practice_notes = {}
    /\ map_preferences = [m \in MapNames |-> <<>>]
    /\ map_weights = [i \in DOMAIN AllMaps |-> [map |-> AllMaps[i], weight |-> 0]]
    /\ panel = [state |-> "closed", pool |-> {}]
    /\ view = [user |-> CHOOSE u \in Users : TRUE, open |-> FALSE, maps_left |-> <<>>]
    /\ votes_cast = 0
    /\ clock \in GenClocks
    /\ events = <<>>
    /\ logs = <<>>
    /\ log_date = DateOf(clock)
    /\ right_now = RightNowOf(clock)
    /\ sent = <<>>
    /\ pre_restart = {}
    /\ restarts = 0
    /\ ran = {}
    /\ cooldowns = <<>>
    /\ InitIdleTasks
    /\ op = [name |-> "init"]

NextGen ==
    \E guild_id \in GenGuilds, maplist \in MapLists, date \in DateTexts :
        addevents(guild_id, maplist, date)

SpecGen == InitGen /\ [][NextGen]_vars

(***************************************************************************)
(* add-practices, cancel-event, cancel-practice, clear-schedule            *)
(***************************************************************************)
\* the cap on the number of scheduled events the guilds hold when the commands are given
MaxCalendar == 3

\* US/Eastern in July: UTC is four hours ahead
UtcOffset == 4 * Hour

\* "Premier" in event.name
ContainsPremier(name) == name \in {"Premier", "Premier Playoffs", "Premier Practice"}

\* the events the guilds may hold when the commands are given
CalendarEvents ==
    LET thursday == RefThursday * DaySeconds + 22 * Hour
        ev(id, g, n, d, t, st) ==
            [id |-> id, guild_id |-> g, name |-> n, description |-> d,
             start_time |-> t, end_time |-> t + Hour, status |-> st]
    IN <<ev(1, debug_server_id, "Premier", "Ascent", thursday, "scheduled"),
         ev(2, debug_server_id, "Premier", "Ascent", thursday + 2 * DaySeconds + Hour, "active"),
         ev(3, debug_server_id, "Premier Practice", "Ascent", thursday - DaySeconds, "scheduled"),
         ev(4, debug_server_id, "Premier Playoffs", "Playoffs", thursday + 3 * DaySeconds,
            "scheduled"),
         ev(5, debug_server_id, "Premier", "Ascent", thursday - 7 * DaySeconds, "ended"),
         ev(6, val_server_id, "Premier", "Ascent", thursday, "scheduled"),
         ev(7, debug_server_id, "Game Night", "Ascent", thursday, "scheduled")>>

\* guild.scheduled_events lists the events in the order of its cache, not by time
RECURSIVE Arrangements(_, _)
Arrangements(S, n) ==
    IF n = 0 THEN {<<>>}
    ELSE LET shorter == Arrangements(S, n - 1)
         IN shorter \cup {Append(q, x) : q \in {r \in shorter : Len(r) = n - 1},
                                         x \in S}

HeldCalendars ==
    {[k \in DOMAIN a |-> CalendarEvents[a[k]]] :
        a \in {b \in Arrangements(DOMAIN CalendarEvents, MaxCalendar) :
                  \A i, j \in DOMAIN b : i # j => b[i] # b[j]}}

\* guild.scheduled_events
ScheduledEvents(guild_id) == SelectSeq(events, LAMBDA e : e.guild_id = guild_id)

\* a resolution that cancels an active event as well
ResolvedByCancel(status) == IF status \in {"scheduled", "active"} THEN "cancelled" ELSE "deleted"

\* event.cancel() for a scheduled event, event.end() for an active one, event.delete()
\* for every other
Resolved(status) ==
    IF status = "scheduled" THEN "cancelled"
    ELSE IF status = "active" THEN "ended" ELSE "deleted"

\* the calendar after the events with the ids of acted have been cancelled, ended or deleted
ResolveAll(evs, acted) ==
    LET kept == SelectSeq(evs, LAMBDA e : e.id \notin acted \/ Resolved(e.status) # "deleted")
    IN [k \in DOMAIN kept |->
          IF kept[k].id \in acted
          THEN [kept[k] EXCEPT !.status = Resolved(@)] ELSE kept[k]]

\* the loop of cancel-event and cancel-practice: every matching event, or the first one
\* of the list when the loop breaks
ActedOn(hits, all) ==
    IF hits = <<>> THEN {}
    ELSE IF all THEN {hits[k].id : k \in DOMAIN hits} ELSE {hits[1].id}

\* AdminPremierCommands.cancelevent: "Premier" in event.name and
\* event.description.lower() == map_name
EventSelected(event, map_name) ==
    ContainsPremier(event.name) /\ Lower(event.description) = map_name

\* AdminPremierCommands.cancelpractice: event.name == "Premier Practice" and
\* event.description.lower() == map_name
PracticeSelected(event, map_name) ==
    event.name = "Premier Practice" /\ Lower(event.description) = map_name

BeforeOf(evs, acted) ==
    {[id |-> evs[k].id, before |-> evs[k].status] : k \in {i \in DOMAIN evs : evs[i].id \in acted}}

\* AdminPremierCommands.cancelevent
cancelevent(guild_id, map_name, all_events) ==
    /\ ~Cooling("cancel-event", guild_id, 60)
    /\ cooldowns' = Used("cancel-event", guild_id)
    /\ LET given == [name |-> "cancelevent", guild_id |-> guild_id,
                     map_name |-> map_name, all |-> all_events]
           acted == ActedOn(SelectSeq(ScheduledEvents(guild_id),
                                      LAMBDA e : EventSelected(e, map_name)), all_events)
       IN IF map_name \notin map_pool /\ map_name # "playoffs"
          THEN /\ op' = given @@ [result |-> "rejected", acted |-> {}]
               /\ UNCHANGED events
          ELSE /\ events' = ResolveAll(events, acted)
               /\ op' = given @@ [result |-> IF acted = {} THEN "none" ELSE "cancelled",
                                  acted |-> BeforeOf(events, acted)]
    /\ UNCHANGED <<clock, logs, log_date, right_now, sent, pre_restart, restarts, ran>>
    /\ UNCHANGED storeVars
    /\ UNCHANGED taskVars

\* AdminPremierCommands.cancelpractice
cancelpractice(guild_id, map_name, all_practices) ==
    /\ ~Cooling("cancel-practice", guild_id, 60)
    /\ cooldowns' = Used("cancel-practice", guild_id)
    /\ LET given == [name |-> "cancelpractice", guild_id |-> guild_id,
                     map_name |-> map_name, all |-> all_practices]
           acted == ActedOn(SelectSeq(ScheduledEvents(guild_id),
                                      LAMBDA e : PracticeSelected(e, map_name)),
                            all_practices)
       IN IF map_name \notin map_pool
          THEN /\ op' = given @@ [result |-> "rejected", acted |-> {}]
               /\ UNCHANGED events
          ELSE /\ events' = ResolveAll(events, acted)
               /\ op' = given @@ [result |-> IF acted = {} THEN "none" ELSE "cancelled",
                                  acted |-> BeforeOf(events, acted)]
    /\ UNCHANGED <<clock, logs, log_date, right_now, sent, pre_restart, restarts, ran>>
    /\ UNCHANGED storeVars
    /\ UNCHANGED taskVars

\* a clear-schedule that clears the events named "Premier" only
ClearedPremierOnly(event) == event.name = "Premier"

\* AdminPremierCommands.clearschedule: "Premier" in event.name
Cleared(event) == ContainsPremier(event.name)

\* AdminPremierCommands.clearschedule
clearschedule(guild_id) ==
    /\ ~Cooling("clear-schedule", guild_id, CooldownSeconds)
    /\ cooldowns' = Used("clear-schedule", guild_id)
    /\ LET acted == ActedOn(SelectSeq(ScheduledEvents(guild_id), Cleared), TRUE)
       IN /\ events' = ResolveAll(events, acted)
          /\ op' = [name |-> "clearschedule", guild_id |-> guild_id,
                    result |-> "cleared", acted |-> BeforeOf(events, acted)]
    /\ UNCHANGED <<clock, logs, log_date, right_now, sent, pre_restart, restarts, ran>>
    /\ UNCHANGED storeVars
    /\ UNCHANGED taskVars

\* an add-practices that asks for any event at all
NothingToDeriveFromEmpty(calendar) == calendar = <<>>

\* AdminPremierCommands.addpractices: no event named "Premier" that is not the playoffs
NothingToDeriveFrom(calendar) ==
    SelectSeq(calendar, LAMBDA e : e.name = "Premier" /\ e.description # "Playoffs") = <<>>

\* datetime.replace(hour=...): the minutes and seconds stay
ReplaceHour(t, hour) == DateOf(t) * DaySeconds + hour * Hour + (t % Hour)

\* practices two days before and two days after
PracticeTimesTwoDays(start_time) ==
    <<DateOf(start_time) * DaySeconds - 2 * DaySeconds + 22 * Hour,
      DateOf(start_time) * DaySeconds + 2 * DaySeconds + 23 * Hour>>

\* AdminPremierCommands.addpractices: wed_time and fri_time, computed in UTC with the
\* hour of 22:00 Eastern, a day before and a day after
PracticeTimes(start_time) ==
    LET wed_hour == ((22 * Hour + UtcOffset) % DaySeconds) \div Hour
        fri_hour == wed_hour + 1
        in_utc == start_time + UtcOffset
    IN <<ReplaceHour(in_utc, wed_hour) - DaySeconds - UtcOffset,
         ReplaceHour(in_utc, fri_hour) + DaySeconds - UtcOffset>>

\* AdminPremierCommands.addpractices: the loop over the events of the guild
RECURSIVE Practices(_, _, _)
Practices(calendar, now, guild_id) ==
    IF calendar = <<>> THEN <<>>
    ELSE LET event == Head(calendar)
             times == PracticeTimes(event.start_time)
             of(t) == IF t < now THEN <<>>
                      ELSE <<[guild_id |-> guild_id, name |-> "Premier Practice",
                              description |-> event.description, start_time |-> t,
                              end_time |-> t + Hour, status |-> "scheduled"]>>
         IN (IF Weekday(DateOf(event.start_time)) # 3 \/ ~ContainsPremier(event.name)
             THEN <<>> ELSE of(times[1]) \o of(times[2]))
            \o Practices(Tail(calendar), now, guild_id)

\* AdminPremierCommands.addpractices
addpractices(guild_id) ==
    /\ ~Cooling("add-practices", guild_id, CooldownSeconds)
    /\ cooldowns' = Used("add-practices", guild_id)
    /\ IF NothingToDeriveFrom(ScheduledEvents(guild_id))
       THEN /\ op' = [name |-> "addpractices", guild_id |-> guild_id,
                      result |-> "nothing", created |-> <<>>]
            /\ UNCHANGED events
       ELSE LET created == Practices(ScheduledEvents(guild_id), clock, guild_id)
            IN /\ events' = WithIds(events, created)
               /\ op' = [name |-> "addpractices", guild_id |-> guild_id,
                         result |-> "added", created |-> created]
    /\ UNCHANGED <<clock, logs, log_date, right_now, sent, pre_restart, restarts, ran>>
    /\ UNCHANGED storeVars
    /\ UNCHANGED taskVars

\* the instants at which the commands are given: the Wednesday noon before RefThursday,
\* Wednesday 22:00, and the noon of RefThursday
CalendarClocks ==
    {(RefThursday - 1) * DaySeconds + 12 * Hour,
     (RefThursday - 1) * DaySeconds + 22 * Hour,
     RefThursday * DaySeconds + 12 * Hour}

\* the process has been started with ascent in the pool, on some calendar
InitCalendar ==
    /\ db = [info |-> [m \in MapNames |-> [in_pool |-> m = "ascent", weight |-> 0]],
             preferences |-> MapNames, notes |-> {}]
    /\ map_pool = {"ascent"}
    /\ practice_notes = {}
    /\ map_preferences = [m \in MapNames |-> <<>>]
    /\ map_weights = [i \in DOMAIN AllMaps |-> [map |-> AllMaps[i], weight |-> 0]]
    /\ panel = [state |-> "closed", pool |-> {}]
    /\ view = [user |-> CHOOSE u \in Users : TRUE, open |-> FALSE, maps_left |-> <<>>]
    /\ votes_cast = 0
    /\ clock \in CalendarClocks
    /\ events \in HeldCalendars
    /\ logs = <<>>
    /\ log_date = DateOf(clock)
    /\ right_now = RightNowOf(clock)
    /\ sent = <<>>
    /\ pre_restart = {}
    /\ restarts = 0
    /\ ran = {}
    /\ cooldowns = <<>>
    /\ InitIdleTasks
    /\ op = [name |-> "init"]

NextCalendar ==
    \/ \E map_name \in {"ascent", "bind", "playoffs"}, all_events \in BOOLEAN :
          cancelevent(debug_server_id, map_name, all_events)
    \/ \E map_name \in {"ascent", "bind"}, all_practices \in BOOLEAN :
          cancelpractice(debug_server_id, map_name, all_practices)
    \/ clearschedule(debug_server_id)
    \/ addpractices(debug_server_id)

SpecCalendar == InitCalendar /\ [][NextCalendar]_vars

(***************************************************************************)
(* add-practices, given again after its cooldown, on calendars that hold   *)
(* practices and playoffs on a Thursday                                    *)
(***************************************************************************)
\* the number of times add-practices is given
MaxRuns == 2
\* the instant of the first command: the Wednesday noon before RefThursday
DeriveStart == (RefThursday - 1) * DaySeconds + 12 * Hour

\* the events the debug guild may hold: those that add-events and add-practices make,
\* and a practice and the playoffs that a member has put on a Thursday
DeriveEvents ==
    LET thursday == RefThursday * DaySeconds + 22 * Hour
        ev(id, n, d, t) ==
            [id |-> id, guild_id |-> debug_server_id, name |-> n, description |-> d,
             start_time |-> t, end_time |-> t + Hour, status |-> "scheduled"]
    IN <<ev(1, "Premier", "Ascent", thursday),
         ev(2, "Premier Practice", "Ascent", thursday - DaySeconds),
         ev(3, "Premier Playoffs", "Playoffs", thursday + 3 * DaySeconds),
         ev(4, "Premier Practice", "Bind", thursday + 7 * DaySeconds),
         ev(5, "Premier Playoffs", "Playoffs", thursday + 14 * DaySeconds)>>

DeriveCalendars ==
    {[k \in DOMAIN a |-> DeriveEvents[a[k]]] :
        a \in {b \in Arrangements(DOMAIN DeriveEvents, MaxCalendar) :
                  \A i, j \in DOMAIN b : i # j => b[i] # b[j]}}

\* the cooldown of add-practices passes
Wait ==
    /\ clock < DeriveStart + (MaxRuns - 1) * CooldownSeconds
    /\ clock' = clock + CooldownSeconds
    /\ op' = [name |-> "Wait"]
    /\ UNCHANGED <<events, logs, log_date, right_now, sent, pre_restart, restarts, ran,
                   cooldowns>>
    /\ UNCHANGED storeVars
    /\ UNCHANGED taskVars

InitDerive ==
    /\ InitStore
    /\ clock = DeriveStart
    /\ events \in DeriveCalendars
    /\ logs = <<>>
    /\ log_date = DateOf(clock)
    /\ right_now = RightNowOf(clock)
    /\ sent = <<>>
    /\ pre_restart = {}
    /\ restarts = 0
    /\ ran = {}
    /\ cooldowns = <<>>
    /\ InitIdleTasks
    /\ op = [name |-> "init"]

NextDerive ==
    \/ addpractices(debug_server_id)
    \/ Wait

SpecDerive == InitDerive /\ [][NextDerive]_vars

(***************************************************************************)
(* Standalone reminders: the remind command and the remember_reminders     *)
(* task. A key is the instant of the reminder (the ISO text of dt_when,    *)
(* whose order as text is the order of the instants); an item is a         *)
(* (guild id, message) pair, a tuple when remind made it and a list when   *)
(* it was read from reminders.json.                                        *)
(***************************************************************************)
\* the number of seconds the reminders are followed through
MaxSeconds == 3
\* the cap on the number of reminders that memory holds at a time
MaxReminders == 2
\* the interval argument of remind, in seconds
Intervals == {1, 2}
\* the message argument of remind
Messages == {"m1", "m2"}
\* the number of seconds the process is down when it is restarted
Downtimes == {0, 2}

RemindStart == RefThursday * DaySeconds + 12 * Hour
RemindEnd == RemindStart + MaxSeconds

Item(guild_id, message, form) == [guild_id |-> guild_id, message |-> message, form |-> form]

\* json.dump followed by json.load: every tuple comes back as a list
AsLists(items) == [k \in DOMAIN items |-> [items[k] EXCEPT !.form = "list"]]

\* Utils.save_reminders: json.dump(self.reminders, file)
SavedReminders(dict) == [k \in DOMAIN dict |-> [dict[k] EXCEPT !.items = AsLists(@)]]

\* a start-up that finds no reminder in the file
LoadedNothing(file) == <<>>

\* Utils.get_reminders: json.load(file)
Loaded(file) == file

Keys(dict) == {dict[k].key : k \in DOMAIN dict}
ItemsAt(dict, key) ==
    IF key \in Keys(dict)
    THEN dict[CHOOSE k \in DOMAIN dict : dict[k].key = key].items
    ELSE <<>>

\* dict[key] = items: a known key keeps its place, a new one goes to the end
SetItems(dict, key, items) ==
    IF key \in Keys(dict)
    THEN [k \in DOMAIN dict |-> IF dict[k].key = key THEN [dict[k] EXCEPT !.items = items]
                                                     ELSE dict[k]]
    ELSE Append(dict, [key |-> key, items |-> items])

\* a replay that takes the keys in the order of the dict
UnsortedByKey(dict) == dict

\* sorted(reminder_iter.keys()): the entries in ascending order of their keys
RECURSIVE SortedByKey(_)
SortedByKey(dict) ==
    IF dict = <<>> THEN <<>>
    ELSE LET first == CHOOSE k \in DOMAIN dict : \A j \in DOMAIN dict : dict[k].key <= dict[j].key
         IN <<dict[first]>>
            \o SortedByKey(SelectSeq(dict, LAMBDA e : e.key # dict[first].key))

\* TasksCog.remember_reminders, lines 254-256: the deep copy the loops run over; entries
\* without items give no iteration
Snapshot(dict) ==
    [queue |-> SelectSeq(SortedByKey(dict), LAMBDA e : e.items # <<>>), i |-> 1]

\* list.remove(x): the list without its first element equal to x
RECURSIVE RemoveFirst(_, _)
RemoveFirst(items, x) ==
    IF items = <<>> THEN <<>>
    ELSE IF Head(items) = x THEN Tail(items)
    ELSE <<Head(items)>> \o RemoveFirst(Tail(items), x)

Contains(items, x) == \E k \in DOMAIN items : items[k] = x

RECURSIVE NumberOfItems(_)
NumberOfItems(dict) ==
    IF dict = <<>> THEN 0 ELSE Len(Head(dict).items) + NumberOfItems(Tail(dict))

\* the first await of a coroutine that is due has been answered before time moves on
NothingDue ==
    /\ \A k \in DOMAIN sleeping : sleeping[k].key > clock
    /\ replay.queue # <<>> => Head(replay.queue).key > clock

\* AdminGenericCommands.remind, lines 125-136: up to the await sleep(interval)
remind(guild_id, message, interval) ==
    /\ NumberOfItems(reminders) < MaxReminders
    /\ clock + interval <= RemindEnd
    /\ LET dt_when == clock + interval
           item == Item(guild_id, message, "tuple")
           dict == SetItems(reminders, dt_when, Append(ItemsAt(reminders, dt_when), item))
       IN /\ reminders' = dict
          /\ reminders_json' = SavedReminders(dict)
          /\ sleeping' = Append(sleeping, [key |-> dt_when, item |-> item])
          /\ op' = [name |-> "remind", key |-> dt_when, message |-> message]
    /\ UNCHANGED <<replay, posted, sweeps>>
    /\ UNCHANGED storeVars
    /\ UNCHANGED sweepVars

\* AdminGenericCommands.remind, lines 138-146: after the sleep. list.remove raises
\* ValueError when the list of the key does not hold the tuple, and save_reminders is
\* not reached then
remind_send(n) ==
    /\ n \in DOMAIN sleeping
    /\ sleeping[n].key <= clock
    /\ LET key == sleeping[n].key
           item == sleeping[n].item
           held == Contains(ItemsAt(reminders, key), item)
           dict == SetItems(reminders, key, RemoveFirst(ItemsAt(reminders, key), item))
       IN /\ posted' = Append(posted, [key |-> key, message |-> item.message,
                                       by |-> "remind", missed |-> FALSE, at |-> clock,
                                       form |-> item.form])
          /\ sleeping' = [k \in 1..Len(sleeping) - 1 |->
                             IF k < n THEN sleeping[k] ELSE sleeping[k + 1]]
          /\ IF held
             THEN /\ reminders' = dict
                  /\ reminders_json' = SavedReminders(dict)
             ELSE UNCHANGED <<reminders, reminders_json>>
          /\ op' = [name |-> "remind_send", key |-> key, message |-> item.message,
                    raised |-> ~held]
    /\ UNCHANGED <<replay, sweeps>>
    /\ UNCHANGED storeVars
    /\ UNCHANGED sweepVars

\* TasksCog.remember_reminders, lines 258-281: one iteration of the inner loop, run
\* when the item is reached (its time has passed) or when its sleep is over.
\* Line 279 builds the new list of the key from the list of the copy.
remember_reminders ==
    /\ replay.queue # <<>>
    /\ Head(replay.queue).key <= clock
    /\ LET time_str == Head(replay.queue).key
           items == Head(replay.queue).items
           reminder_info == items[replay.i]
           dict == SetItems(reminders, time_str,
                            SelectSeq(items, LAMBDA r : r # reminder_info))
       IN /\ posted' = Append(posted, [key |-> time_str, message |-> reminder_info.message,
                                       by |-> "replay", missed |-> time_str < clock,
                                       at |-> clock, form |-> reminder_info.form])
          /\ reminders' = dict
          /\ reminders_json' = SavedReminders(dict)
          /\ replay' = IF replay.i < Len(items)
                       THEN [replay EXCEPT !.i = @ + 1]
                       ELSE [queue |-> Tail(replay.queue), i |-> 1]
          /\ op' = [name |-> "remember_reminders", key |-> time_str,
                    message |-> reminder_info.message, form |-> reminder_info.form]
    /\ UNCHANGED <<sleeping, sweeps>>
    /\ UNCHANGED storeVars
    /\ UNCHANGED sweepVars

\* the process stops, between two instants at which something is due, and is started
\* again after the downtime: Utils.__init__ reads reminders.json and TasksCog.on_ready
\* starts the task
Reboot(downtime) ==
    /\ restarts < MaxRestarts
    /\ NothingDue
    /\ clock + downtime <= RemindEnd
    /\ clock' = clock + downtime
    /\ restarts' = restarts + 1
    /\ reminders' = Loaded(reminders_json)
    /\ sleeping' = <<>>
    /\ replay' = Snapshot(reminders')
    /\ op' = [name |-> "Reboot", downtime |-> downtime]
    /\ UNCHANGED <<reminders_json, posted, sweeps>>
    /\ UNCHANGED storeVars
    /\ UNCHANGED <<events, logs, log_date, right_now, sent, pre_restart, ran, cooldowns>>

\* a second passes
Tick ==
    /\ clock < RemindEnd
    /\ NothingDue
    /\ clock' = clock + 1
    /\ op' = [name |-> "Tick"]
    /\ UNCHANGED <<events, logs, log_date, right_now, sent, pre_restart, restarts, ran,
                   cooldowns>>
    /\ UNCHANGED storeVars
    /\ UNCHANGED taskVars

\* the reminders.json files the process is started on: none, one that is past due,
\* two past due with one key, a later one written before an earlier one, one to come
PersistedReminders ==
    LET item(m) == Item(debug_server_id, m, "list")
        entry(key, items) == [key |-> key, items |-> items]
    IN {<<>>,
        <<entry(RemindStart - 1, <<item("m1")>>)>>,
        <<entry(RemindStart - 1, <<item("m1"), item("m2")>>)>>,
        <<entry(RemindStart + 2, <<item("m1")>>), entry(RemindStart - 1, <<item("m2")>>)>>,
        <<entry(RemindStart + 1, <<item("m1")>>)>>}

\* the process has just been started on one of these files
InitRemind ==
    /\ InitStore
    /\ clock = RemindStart
    /\ events = <<>>
    /\ logs = <<>>
    /\ log_date = DateOf(clock)
    /\ right_now = RightNowOf(clock)
    /\ sent = <<>>
    /\ pre_restart = {}
    /\ restarts = 0
    /\ ran = {}
    /\ cooldowns = <<>>
    /\ reminders_json \in PersistedReminders
    /\ reminders = Loaded(reminders_json)
    /\ sleeping = <<>>
    /\ replay = Snapshot(reminders)
    /\ posted = <<>>
    /\ sweeps = <<>>
    /\ op = [name |-> "init"]

NextRemind ==
    \/ \E message \in Messages, interval \in Intervals :
          remind(debug_server_id, message, interval)
    \/ \E n \in DOMAIN sleeping : remind_send(n)
    \/ remember_reminders
    \/ \E downtime \in Downtimes : Reboot(downtime)
    \/ Tick

\* TasksCog.on_ready at a later READY of the gateway: remember_reminders, a loop with
\* count=1, has completed, so is_running() is false and the task is started again on
\* the reminders that memory holds now. A start on no reminder does nothing.
on_ready_again ==
    /\ Len(posted) < MaxReminders
    /\ replay.queue = <<>>
    /\ Snapshot(reminders).queue # <<>>
    /\ replay' = Snapshot(reminders)
    /\ op' = [name |-> "on_ready_again"]
    /\ UNCHANGED <<reminders, reminders_json, sleeping, posted, sweeps>>
    /\ UNCHANGED storeVars
    /\ UNCHANGED sweepVars

NextReady ==
    \/ NextRemind
    \/ on_ready_again

SpecReady == InitRemind /\ [][NextReady]_vars

\* a coroutine that can run does run, and time goes on
SpecRemind ==
    /\ InitRemind
    /\ [][NextRemind]_vars
    /\ WF_vars(\E n \in DOMAIN sleeping : remind_send(n))
    /\ WF_vars(remember_reminders)
    /\ WF_vars(Tick)

(***************************************************************************)
(* The sweep and the cancelling commands on one calendar                   *)
(***************************************************************************)
\* the process has been started with ascent in the pool, on some calendar, at the
\* start of the evening
InitSchedule ==
    /\ db = [info |-> [m \in MapNames |-> [in_pool |-> m = "ascent", weight |-> 0]],
             preferences |-> MapNames, notes |-> {}]
    /\ map_pool = {"ascent"}
    /\ practice_notes = {}
    /\ map_preferences = [m \in MapNames |-> <<>>]
    /\ map_weights = [i \in DOMAIN AllMaps |-> [map |-> AllMaps[i], weight |-> 0]]
    /\ panel = [state |-> "closed", pool |-> {}]
    /\ view = [user |-> CHOOSE u \in Users : TRUE, open |-> FALSE, maps_left |-> <<>>]
    /\ votes_cast = 0
    \* the process is started as the first events of the evening begin
    /\ clock = SweepStart + 6 * TickLen
    /\ events \in Calendars
    /\ logs = <<>>
    /\ log_date = DateOf(clock)
    /\ right_now = RightNowOf(clock)
    /\ sent = <<>>
    /\ pre_restart = {}
    /\ restarts = 0
    /\ ran = {}
    /\ cooldowns = <<>>
    /\ InitIdleTasks
    /\ op = [name |-> "init"]

NextSchedule ==
    \/ eventreminders
    \/ latest_logs
    \/ Restart
    \/ Advance
    \* the admin gives the cancelling commands while an event is scheduled or active
    \/ /\ \E k \in DOMAIN events : events[k].status \in {"scheduled", "active"}
       /\ \/ cancelevent(debug_server_id, "ascent", TRUE)
          \/ cancelpractice(debug_server_id, "ascent", TRUE)
          \/ clearschedule(debug_server_id)

SpecSchedule == InitSchedule /\ [][NextSchedule]_vars

(***************************************************************************)
(* Claims about the preference store (checked under Spec)                  *)
(***************************************************************************)
\* C1: in every reachable state the weight of every known map equals the sum of the
\* votes stored for it, also after a user changed an earlier vote to another value
C1_WeightIsSumOfVotes ==
    \A m \in DOMAIN map_preferences : Weight(m) = SumVotes(map_preferences[m])

\* C2: a vote whose value equals the value already stored for that map and user
\* changes neither the preference table, nor the weight table, nor the store
C2_SameVoteIsNoOp ==
    [][(/\ op'.name = "save_preference"
        /\ op'.known
        /\ op'.stored = op'.preference)
       => UNCHANGED <<map_preferences, map_weights, db>>]_vars

\* C2 witness: a user pressed the button of the value they had already voted
C2_SameVoteCast ==
    /\ op.name = "save_preference"
    /\ op.known
    /\ op.stored = op.preference
    /\ op.preference # 0

(***************************************************************************)
(* Claims about the reminder sweep (SpecSweep)                             *)
(***************************************************************************)

\* C3: a sweep run a second time in succession, at the same reading of the clock and
\* over the same entries, sends no notification and appends no line to the log
C3_SecondSweepSendsNothing ==
    (op.name = "eventreminders" /\ op.run = 2) => (op.posted = {} /\ op.logged = {})

\* C3 witness: the second run of a sweep whose first run has sent a reminder
C3_SecondSweepAfterSend ==
    /\ op.name = "eventreminders" /\ op.run = 2
    /\ \E r \in op.results :
          /\ r.reminder_type # ""
          /\ Count(sent, <<r.id, r.reminder_type>>) = 1

\* C4: no sweep sends a reminder whose line was in the log files when the process
\* was last restarted
C4_NoResendAfterRestart ==
    op.name = "eventreminders" => op.logged \cap pre_restart = {}

\* C5: get_reminder_type answers prestart exactly when 0 < D <= 1h, start exactly when
\* -10min <= D <= 0, and no reminder for every other D
C5_ReminderTypeByRemainingTime ==
    op.name = "eventreminders" =>
        \A r \in op.results :
            LET D == r.time_remaining
            IN /\ r.reminder_type \in {"prestart", "start", ""}
               /\ r.reminder_type = "prestart" <=> (0 < D /\ D <= 3600)
               /\ r.reminder_type = "start" <=> (-600 <= D /\ D <= 0)

\* C5 witness: a sweep that classifies an event exactly one hour before its start
C5_ClassifiedAtOneHour ==
    /\ op.name = "eventreminders"
    /\ \E r \in op.results : r.time_remaining = 3600 /\ r.reminder_type = "prestart"

\* C6: a sweep changes the status of an event only from scheduled to active when
\* -10min <= D <= 0, and from active to ended and from scheduled to cancelled when
\* D <= -1h; the events it classifies get these changes, and every other status stays
C6_StatusChanges ==
    [][op'.name = "eventreminders" =>
         /\ DOMAIN events' = DOMAIN events
         /\ \A i \in DOMAIN events :
              LET D == events[i].start_time - clock
                  classified == events[i].id \in {r.id : r \in op'.results}
                  before == events[i].status
              IN /\ [events'[i] EXCEPT !.status = before] = events[i]
                 /\ events'[i].status =
                      IF classified /\ -600 <= D /\ D <= 0 /\ before = "scheduled"
                      THEN "active"
                      ELSE IF classified /\ D <= -3600 /\ before = "active" THEN "ended"
                      ELSE IF classified /\ D <= -3600 /\ before = "scheduled"
                      THEN "cancelled"
                      ELSE before]_vars

\* C6 witness: a sweep that ends an event it had started an hour or more before
C6_ActiveEnded ==
    /\ op.name = "eventreminders"
    /\ \E r \in op.results : r.before = "active" /\ r.after = "ended"
    /\ \E i \in DOMAIN events : events[i].status = "ended"

(***************************************************************************)
(* Claims about add-events (SpecGen)                                       *)
(***************************************************************************)
\* the day number of the Thursday a text names, -1 for every other text
ThursdayNamed(date) ==
    CASE date = <<"0", "7", "/", "1", "1", "/", "2", "4">> -> RefThursday
      [] date = <<"7", "/", "1", "1", "/", "2", "4">> -> RefThursday
      [] date = <<"0", "7", "/", "1", "8", "/", "2", "4">> -> RefThursday + 7
      [] OTHER -> -1

\* add-events was given a Thursday and maps of the pool only
GivenThursdayAndPoolMaps ==
    /\ op.name = "addevents"
    /\ ThursdayNamed(op.date) >= 0
    /\ \A k \in DOMAIN op.maplist : StripLower(op.maplist[k]) \in map_pool

\* the start of slot j (0, 1, 2) of item i (0-indexed): Thursday 22:00, Saturday 23:00
\* and Sunday 22:00 of week i
SlotStart(i, j) ==
    (ThursdayNamed(op.date) + 7 * i) * 86400
        + (IF j = 0 THEN 22 * 3600
           ELSE IF j = 1 THEN 2 * 86400 + 23 * 3600
           ELSE 3 * 86400 + 22 * 3600)

AllSlots == {SlotStart(i, j) : i \in 0..(Len(op.maplist) - 1), j \in 0..2}
CreatedStarts == {op.created[k].start_time : k \in DOMAIN op.created}

\* C7: with every slot in the future, add-events on n maps and a Thursday creates exactly
\* 3n events, at Thursday 22:00, Saturday 23:00 and Sunday 22:00 of week i for map i,
\* each one hour long
C7_ThreeEventsPerMap ==
    (GivenThursdayAndPoolMaps /\ \A t \in AllSlots : clock <= t) =>
        /\ op.result = "created"
        /\ Len(op.created) = 3 * Len(op.maplist)
        /\ CreatedStarts = AllSlots
        /\ \A k \in DOMAIN op.created :
              op.created[k].end_time = op.created[k].start_time + 3600

\* C8: the event of the last slot of the last map, and only that one, is named
\* 'Premier Playoffs' and described 'Playoffs'; every other event created is named
\* 'Premier' and described by its map
C8_OnlyLastSlotIsPlayoffs ==
    (GivenThursdayAndPoolMaps /\ clock <= SlotStart(Len(op.maplist) - 1, 2)) =>
        /\ \E k \in DOMAIN op.created :
              op.created[k].start_time = SlotStart(Len(op.maplist) - 1, 2)
        /\ \A k \in DOMAIN op.created :
              IF op.created[k].start_time = SlotStart(Len(op.maplist) - 1, 2)
              THEN /\ op.created[k].name = "Premier Playoffs"
                   /\ op.created[k].description = "Playoffs"
              ELSE /\ op.created[k].name = "Premier"
                   /\ \E i \in DOMAIN op.maplist :
                         /\ op.created[k].description = Title(StripLower(op.maplist[i]))
                         /\ op.created[k].start_time \in
                               {SlotStart(i - 1, j) : j \in 0..2}

\* C9: add-events creates an event for every slot that is not before now and for no
\* other, slots in the past do not make it fail, and its output says that maps were
\* skipped whenever a slot was skipped
C9_PastSlotsSkipped ==
    GivenThursdayAndPoolMaps =>
        /\ op.result = "created"
        /\ CreatedStarts = {t \in AllSlots : clock <= t}
        /\ (\E t \in AllSlots : t < clock) => op.skipped

\* C10: add-events is rejected and creates no event whenever the date is not a Thursday
\* or is malformed, or a map of the list is not in the pool
C10_BadInputRejected ==
    (op.name = "addevents" /\ ~GivenThursdayAndPoolMaps) =>
        /\ op.result = "rejected"
        /\ op.created = <<>>
        /\ events = <<>>

(***************************************************************************)
(* Claims about the calendar commands (SpecCalendar)                       *)
(***************************************************************************)
\* the events of the calendar the last command was given in, before and after a step
Listed(evs, guild_id) == {evs[k] : k \in {i \in DOMAIN evs : evs[i].guild_id = guild_id}}
Kept(e, evs) == \E k \in DOMAIN evs : evs[k] = e
Gone(e, evs) == \A k \in DOMAIN evs : evs[k].id # e.id
\* cancelled if scheduled, ended if active, deleted otherwise
TriState(e, evs) ==
    IF e.status = "scheduled" THEN Kept([e EXCEPT !.status = "cancelled"], evs)
    ELSE IF e.status = "active" THEN Kept([e EXCEPT !.status = "ended"], evs)
    ELSE Gone(e, evs)

\* a Primary entry that starts on a Thursday at 22:00
ThursdayPrimary(e) ==
    /\ e.name = "Premier" /\ e.description # "Playoffs"
    /\ ((e.start_time \div 86400) + 3) % 7 = 3
    /\ e.start_time % 86400 = 22 * 3600

\* add-practices has created a practice for the item of e at t exactly when t has not passed
PracticeIffNotPassed(e, t, created, after) ==
    LET made == {k \in DOMAIN created :
                    /\ created[k].name = "Premier Practice"
                    /\ created[k].description = e.description
                    /\ created[k].start_time = t}
    IN /\ (clock <= t) <=> (made # {})
       /\ \A k \in made : \E i \in DOMAIN after :
             /\ after[i].name = "Premier Practice" /\ after[i].description = e.description
             /\ after[i].start_time = t /\ after[i].status = "scheduled"

C12_NothingToDeriveFrom ==
    [][(op'.name = "addpractices"
          /\ ~\E e \in Listed(events, op'.guild_id) :
                e.name = "Premier" /\ e.description # "Playoffs") =>
          (op'.result = "nothing" /\ op'.created = <<>> /\ events' = events)]_vars

\* C12 witness: add-practices has failed on a calendar that holds the Finale
C12_OnlyFinaleHeld ==
    /\ op.name = "addpractices" /\ op.result = "nothing"
    /\ \E k \in DOMAIN events :
          events[k].guild_id = op.guild_id /\ events[k].name = "Premier Playoffs"

\* the selector of a cancel command: the label of the command and the item
CancelSelects(o, e) ==
    /\ e.guild_id = o.guild_id
    /\ Lower(e.description) = o.map_name
    /\ IF o.name = "cancelevent"
       THEN e.name \in {"Premier", "Premier Playoffs", "Premier Practice"}
       ELSE e.name = "Premier Practice"

CancelDone(o) == o.name \in {"cancelevent", "cancelpractice"} /\ o.result # "rejected"

\* C13: every entry a cancel command acts on is cancelled if scheduled, ended if active
\* and deleted otherwise (all the entries that match with the all flag, one of them
\* without it); the entries that do not match keep their status and stay on the calendar
C13_CancelTriState ==
    [][CancelDone(op') =>
          LET before == {events[k] : k \in DOMAIN events}
              changed == {e \in before : ~Kept(e, events')}
          IN /\ \A e \in before : ~CancelSelects(op', e) => Kept(e, events')
             /\ \A e \in changed : TriState(e, events')
             /\ op'.all => \A e \in before : CancelSelects(op', e) => e \in changed
             /\ ~op'.all => Cardinality(changed) <= 1
             /\ Len(events') <= Len(events)]_vars

\* C13 witness: a cancel with the all flag has cancelled a scheduled entry and ended an
\* active one
C13_CancelledAndEnded ==
    /\ CancelDone(op) /\ op.all
    /\ \E a, b \in op.acted : a.before = "scheduled" /\ b.before = "active"

\* C14: a cancel without the all flag, when an entry matches, changes exactly one entry,
\* and that is the matching entry with the earliest start time
C14_ClosestIsCancelled ==
    [][(CancelDone(op') /\ ~op'.all
          /\ \E k \in DOMAIN events : CancelSelects(op', events[k])) =>
          LET before == {events[k] : k \in DOMAIN events}
              changed == {e \in before : ~Kept(e, events')}
          IN /\ Cardinality(changed) = 1
             /\ \A e \in changed : \A f \in before :
                   CancelSelects(op', f) => e.start_time <= f.start_time]_vars

\* C15: cancel-event never cancels, ends or deletes a practice
C15_CancelEventKeepsPractices ==
    [][op'.name = "cancelevent" =>
          \A k \in DOMAIN events :
             events[k].name = "Premier Practice" => Kept(events[k], events')]_vars

\* C16: after clear-schedule no entry of the calendar that carries 'Premier' in its name
\* is scheduled or active: each was cancelled if scheduled, ended if active and deleted
\* otherwise, and every other entry is unchanged
C16_ClearScheduleTriState ==
    [][op'.name = "clearschedule" =>
          LET before == {events[k] : k \in DOMAIN events}
              labelled(e) == /\ e.guild_id = op'.guild_id
                             /\ e.name \in {"Premier", "Premier Playoffs", "Premier Practice"}
          IN /\ \A e \in before : IF labelled(e) THEN TriState(e, events')
                                  ELSE Kept(e, events')
             /\ \A k \in DOMAIN events' :
                   labelled(events'[k]) => events'[k].status \notin {"scheduled", "active"}
             /\ Len(events') <= Len(events)]_vars

\* C16 witness: clear-schedule has cancelled a scheduled practice and ended an active
\* event, and an entry without the label is still scheduled
C16_ClearedWithOthersLeft ==
    /\ op.name = "clearschedule"
    /\ \E a, b \in op.acted : a.id = 3 /\ a.before = "scheduled" /\ b.before = "active"
    /\ \E k \in DOMAIN events : events[k].name = "Game Night" /\ events[k].status = "scheduled"

(***************************************************************************)
(* Claims about the map catalogue (SpecCatalog)                            *)
(***************************************************************************)
\* C17: once remove-map has been called for an item of the game, the item is absent
\* from the pool, the preference table, the weight table and the notes, in memory as
\* well as in maps.db
C17_RemovedEverywhere ==
    [][(op'.name = "remove_map" /\ op'.known)
       => LET m == op'.map_name
          IN /\ m \notin map_pool'
             /\ m \notin DOMAIN map_preferences'
             /\ m \notin WeightKeys(map_weights')
             /\ \A n \in practice_notes' : n[1] # m
             /\ m \notin DOMAIN db'.info
             /\ m \notin db'.preferences
             /\ \A r \in db'.notes : r[2] # m]_vars

\* C18: remove-map of an item of the game leaves the votes of every other item as
\* they were, and the preference table it leaves, in memory and in maps.db, is the
\* old one minus the column of the removed item
C18_OtherColumnsKept ==
    [][(op'.name = "remove_map" /\ op'.known)
       => LET m == op'.map_name
          IN /\ DOMAIN map_preferences' = DOMAIN map_preferences \ {m}
             /\ \A o \in DOMAIN map_preferences \ {m} :
                   map_preferences'[o] = map_preferences[o]
             /\ db'.preferences = db.preferences \ {m}]_vars

\* C19: add-map of an item that is not in the game creates it with weight 0, no vote
\* and outside the pool, in memory and in maps.db, and leaves the pool and the other
\* items as they were; add-map of an item of the game changes nothing
C19_AddCreatesOrRejects ==
    [][op'.name = "add_map"
       => LET m == op'.map_name
          IN IF op'.known
             THEN UNCHANGED <<map_preferences, map_weights, map_pool, practice_notes, db>>
             ELSE /\ DOMAIN map_preferences' = DOMAIN map_preferences \cup {m}
                  /\ map_preferences'[m] = <<>>
                  /\ \A o \in DOMAIN map_preferences :
                        map_preferences'[o] = map_preferences[o]
                  /\ WeightKeys(map_weights') = WeightKeys(map_weights) \cup {m}
                  /\ \A i \in DOMAIN map_weights' :
                        \/ map_weights'[i] = [map |-> m, weight |-> 0]
                        \/ \E j \in DOMAIN map_weights : map_weights'[i] = map_weights[j]
                  /\ m \notin map_pool'
                  /\ map_pool' = map_pool
                  /\ DOMAIN db'.info = DOMAIN db.info \cup {m}
                  /\ db'.info[m] = [in_pool |-> FALSE, weight |-> 0]
                  /\ \A o \in DOMAIN db.info \ {m} : db'.info[o] = db.info[o]
                  /\ db'.preferences = db.preferences \cup {m}
                  /\ UNCHANGED practice_notes
                  /\ db'.notes = db.notes]_vars

\* C19 witness: bind was added to a game that holds ascent, with votes, in the pool
C19_BindAdded ==
    /\ op.name = "add_map"
    /\ ~op.known
    /\ op.map_name = "bind"
    /\ map_pool = {"ascent"}
    /\ map_preferences["ascent"] # <<>>

\* the set the panel shows as selected when Apply Changes is pressed
Selected == IF panel.state = "own" THEN panel.pool ELSE map_pool

\* C20: Apply Changes makes the pool, in memory and in the rows of the info table,
\* the selected set; on a pool that already is the selected set it changes nothing;
\* with nothing selected the pool is empty afterwards; every item, its votes, its
\* weight and its notes stay
C20_ApplyReplacesPool ==
    [][op'.name = "apply_changes"
       => /\ map_pool' = Selected
          /\ (Selected = {} => map_pool' = {})
          /\ DOMAIN db'.info = DOMAIN db.info
          /\ \A m \in DOMAIN db.info :
                db'.info[m] = [in_pool |-> m \in Selected, weight |-> db.info[m].weight]
          /\ db'.preferences = db.preferences
          /\ db'.notes = db.notes
          /\ UNCHANGED <<map_preferences, map_weights, practice_notes>>
          /\ ((/\ map_pool = Selected
               /\ \A m \in DOMAIN db.info : db.info[m].in_pool = (m \in Selected))
              => UNCHANGED <<map_pool, db>>)]_vars

\* C20 witness: the set {ascent} was applied to a pool that already was {ascent},
\* in memory and in maps.db, while ascent held votes
C20_SameSetAppliedAgain ==
    /\ op.name = "apply_changes"
    /\ op.again
    /\ op.pool = {"ascent"}
    /\ map_preferences["ascent"] # <<>>
    /\ "ascent" \in DOMAIN db.info
    /\ db.info["ascent"].in_pool

(***************************************************************************)
(* Claims about the roster purge, the weight listing and failed votes      *)
(* (Spec)                                                                  *)
(***************************************************************************)
\* C21: save_preferences removes no vote when the roster is empty; with a roster it
\* removes exactly the votes of the users that are not on it; afterwards the weight of
\* every map is the sum of the votes left for it
C21_PurgeKeepsRoster ==
    [][op'.name = "save_preferences"
       => LET roster == op'.teammate_ids
          IN /\ DOMAIN map_preferences' = DOMAIN map_preferences
             /\ \A m \in DOMAIN map_preferences :
                   LET old == map_preferences[m]
                       new == map_preferences'[m]
                   IN IF roster = {}
                      THEN new = old
                      ELSE /\ DOMAIN new = DOMAIN old \cap roster
                           /\ \A u \in DOMAIN new : new[u] = old[u]
             /\ \A m \in DOMAIN map_preferences' :
                   \E i \in DOMAIN map_weights' :
                      /\ map_weights'[i].map = m
                      /\ map_weights'[i].weight = SumVotes(map_preferences'[m])]_vars

\* C21 witness: the purge ran with the roster {u1} and removed a vote, and a vote of
\* u1 is left
C21_FormerTeammatePurged ==
    /\ op.name = "save_preferences"
    /\ op.teammate_ids = {"u1"}
    /\ op.purged
    /\ \E m \in DOMAIN map_preferences : DOMAIN map_preferences[m] = {"u1"}

\* C22: the listing of map-weights and map-votes, the maps of the pool in the order of
\* map_weights, is in non-increasing order of weight
C22_ListingDescending ==
    LET listing == SelectSeq(map_weights, LAMBDA r : r.map \in map_pool)
    IN \A i, j \in DOMAIN listing : i < j => listing[i].weight >= listing[j].weight

\* C30: a vote whose statements for maps.db fail leaves the vote table and the weight
\* table in memory as they were before the vote
C30_FailedVoteNotApplied ==
    [][(op'.name = "save_preference" /\ op'.raised)
       => UNCHANGED <<map_preferences, map_weights>>]_vars

(***************************************************************************)
(* Claims about failures of remove-map (SpecCatalog)                       *)
(***************************************************************************)
\* C29: a remove-map of an item of the game either removes the info row, the notes and
\* the preference column of the item from maps.db together, or leaves maps.db, the
\* pool, the vote table and the weight table as they were before the call
C29_RemoveAllOrNothing ==
    [][(op'.name = "remove_map" /\ op'.known)
       => LET m == op'.map_name
          IN \/ /\ m \notin DOMAIN db'.info
                /\ \A r \in db'.notes : r[2] # m
                /\ m \notin db'.preferences
             \/ /\ db' = db
                /\ UNCHANGED <<map_pool, map_preferences, map_weights>>]_vars

(***************************************************************************)
(* Claims about the status of the events (SpecSchedule)                    *)
(***************************************************************************)
\* the status changes of the state machine of a calendar entry
StatusChanges ==
    {<<"scheduled", "active">>, <<"scheduled", "cancelled">>, <<"active", "ended">>}

\* C28: whatever the sweep, cancel-event, cancel-practice and clear-schedule do, the
\* status of an event that stays on the calendar either stays or changes from scheduled
\* to active, from scheduled to cancelled or from active to ended
C28_StatusTransitions ==
    [][\A i \in DOMAIN events, j \in DOMAIN events' :
          events[i].id = events'[j].id
          => \/ events'[j].status = events[i].status
             \/ <<events[i].status, events'[j].status>> \in StatusChanges]_vars

\* C28 witness: clear-schedule has ended an event that the sweep had started, and
\* cancelled one that was still scheduled
C28_StartedThenEnded ==
    /\ op.name = "clearschedule"
    /\ \E a, b \in op.acted :
          /\ a.before = "active"
          /\ b.before = "scheduled"
          /\ \E k \in DOMAIN events : events[k].id = a.id /\ events[k].status = "ended"
          /\ \E k \in DOMAIN events : events[k].id = b.id /\ events[k].status = "cancelled"

(***************************************************************************)
(* Overlapping invocations of the sweep: reload_extension replaces the     *)
(* TasksCog instance, TasksCog has no cog_unload, so the loops of the old  *)
(* instance keep running, and the next on_ready starts the loops of the    *)
(* new one. The invocations are followed from one await to the next.       *)
(***************************************************************************)
\* the number of TasksCog instances whose loops run
MaxLoops == 2
\* the last instant followed
OverlapEnd == SweepStart + 2 * TickLen

\* the eventreminders loop of one TasksCog instance: not started, waiting for its next
\* time, inside an invocation, or through with the invocation of this instant
Loop(stage) == [stage |-> stage, queue |-> <<>>, pending |-> <<>>]

\* Loop.start(): the next time of the loop is after now
Started == Loop(IF SweepDue THEN "done" ELSE "idle")

\* the loop ends its invocation when the for loop is exhausted
Continue(queue) == [stage |-> IF queue = <<>> THEN "done" ELSE "running",
                    queue |-> queue, pending |-> <<>>]

\* Bizzy.reload and AdminPremierCommands.add_map: load_cogs reloads cogs.tasks_cog
reload ==
    /\ Len(sweeps) < MaxLoops
    /\ \A i \in DOMAIN sweeps : sweeps[i].stage # "unstarted"
    /\ sweeps' = Append(sweeps, Loop("unstarted"))
    /\ op' = [name |-> "reload"]
    /\ UNCHANGED <<clock, events, logs, log_date, right_now, sent, pre_restart, restarts,
                   ran, cooldowns>>
    /\ UNCHANGED storeVars
    /\ UNCHANGED <<reminders, reminders_json, sleeping, replay, posted>>

\* TasksCog.on_ready of the instance that is registered: task.start() for a task that
\* is not running
on_ready ==
    /\ \E i \in DOMAIN sweeps : sweeps[i].stage = "unstarted"
    /\ sweeps' = [i \in DOMAIN sweeps |->
                    IF sweeps[i].stage = "unstarted" THEN Started ELSE sweeps[i]]
    /\ op' = [name |-> "on_ready"]
    /\ UNCHANGED <<clock, events, logs, log_date, right_now, sent, pre_restart, restarts,
                   ran, cooldowns>>
    /\ UNCHANGED storeVars
    /\ UNCHANGED <<reminders, reminders_json, sleeping, replay, posted>>

\* TasksCog.eventreminders up to its first await: events = await self.get_all_events()
eventreminders_begin(i) ==
    /\ SweepDue
    /\ sweeps[i].stage = "idle"
    /\ sweeps' = [sweeps EXCEPT ![i] = Continue(get_all_events)]
    /\ op' = [name |-> "eventreminders_begin", loop |-> i]
    /\ UNCHANGED <<clock, events, logs, log_date, right_now, sent, pre_restart, restarts,
                   ran, cooldowns>>
    /\ UNCHANGED storeVars
    /\ UNCHANGED <<reminders, reminders_json, sleeping, replay, posted>>

\* TasksCog.eventreminders from the head of the for loop to the await of event.users():
\* get_reminder_type, the log line, and the search of the log file
eventreminders_check(i) ==
    /\ sweeps[i].stage = "running"
    /\ sweeps[i].pending = <<>>
    /\ LET event == Head(sweeps[i].queue)
           time_remaining == event.start_time - clock
           reminder_type == ReminderType(time_remaining)
           skipped == \/ reminder_type = ""
                      \/ already_logged(logs, LogMessage(reminder_type, event))
       IN /\ events' = SetStatus(events, event.id, StatusAfter(time_remaining, event.status))
          /\ sweeps' = [sweeps EXCEPT ![i] =
                          IF skipped THEN Continue(Tail(sweeps[i].queue))
                          ELSE [stage |-> "running", queue |-> Tail(sweeps[i].queue),
                                pending |-> <<[event |-> event,
                                               reminder_type |-> reminder_type]>>]]
          /\ op' = [name |-> "eventreminders_check", loop |-> i, id |-> event.id,
                    reminder_type |-> reminder_type, skipped |-> skipped]
    /\ UNCHANGED <<clock, logs, log_date, right_now, sent, pre_restart, restarts, ran,
                   cooldowns>>
    /\ UNCHANGED storeVars
    /\ UNCHANGED <<reminders, reminders_json, sleeping, replay, posted>>

\* TasksCog.eventreminders from event.users() to the end of the loop body:
\* get_reminder_embed, await channel.send, and global_utils.log(log_message)
eventreminders_send(i) ==
    /\ sweeps[i].stage = "running"
    /\ sweeps[i].pending # <<>>
    /\ LET event == sweeps[i].pending[1].event
           reminder_type == sweeps[i].pending[1].reminder_type
       IN IF EmbedRaises(event)
          THEN /\ sweeps' = [sweeps EXCEPT ![i] = Loop("done")]
               /\ op' = [name |-> "eventreminders_send", loop |-> i, id |-> event.id,
                         reminder_type |-> reminder_type, raised |-> TRUE]
               /\ UNCHANGED <<sent, logs>>
          ELSE /\ sent' = Bump(sent, <<event.id, reminder_type>>)
               /\ logs' = Logged(logs, log_date, LogMessage(reminder_type, event))
               /\ sweeps' = [sweeps EXCEPT ![i] = Continue(sweeps[i].queue)]
               /\ op' = [name |-> "eventreminders_send", loop |-> i, id |-> event.id,
                         reminder_type |-> reminder_type, raised |-> FALSE]
    /\ UNCHANGED <<clock, events, log_date, right_now, pre_restart, restarts, ran, cooldowns>>
    /\ UNCHANGED storeVars
    /\ UNCHANGED <<reminders, reminders_json, sleeping, replay, posted>>

\* time passes once every loop that is due has been through its invocation
Pass ==
    /\ clock < OverlapEnd
    /\ \A i \in DOMAIN sweeps : sweeps[i].stage \in {"unstarted", "done"} \/ ~SweepDue
    /\ clock' = NextInstant
    /\ sweeps' = [i \in DOMAIN sweeps |->
                    IF sweeps[i].stage = "done" THEN Loop("idle") ELSE sweeps[i]]
    /\ op' = [name |-> "Pass"]
    /\ UNCHANGED <<events, logs, log_date, right_now, sent, pre_restart, restarts, ran,
                   cooldowns>>
    /\ UNCHANGED storeVars
    /\ UNCHANGED <<reminders, reminders_json, sleeping, replay, posted>>

\* the process is started ten minutes before the evening, or at its start, on some
\* calendar, and on_ready has started the loops of the first TasksCog instance
InitOverlap ==
    /\ InitStore
    /\ clock \in {SweepStart - TickLen, SweepStart}
    /\ events \in Calendars
    /\ logs = <<>>
    /\ log_date = DateOf(clock)
    /\ right_now = RightNowOf(clock)
    /\ sent = <<>>
    /\ pre_restart = {}
    /\ restarts = 0
    /\ ran = {}
    /\ cooldowns = <<>>
    /\ reminders = <<>>
    /\ reminders_json = <<>>
    /\ sleeping = <<>>
    /\ replay = [queue |-> <<>>, i |-> 1]
    /\ posted = <<>>
    /\ sweeps = <<Loop("idle")>>
    /\ op = [name |-> "init"]

NextOverlap ==
    \/ reload
    \/ on_ready
    \/ \E i \in DOMAIN sweeps : eventreminders_begin(i)
    \/ \E i \in DOMAIN sweeps : eventreminders_check(i)
    \/ \E i \in DOMAIN sweeps : eventreminders_send(i)
    \/ Pass

SpecOverlap == InitOverlap /\ [][NextOverlap]_vars

(***************************************************************************)
(* Claims about the standalone reminders (SpecRemind)                      *)
(***************************************************************************)
\* the reminders.json file holds a reminder with this key and message
Persisted(key, message) ==
    \E k \in DOMAIN ItemsAt(reminders_json, key) :
       ItemsAt(reminders_json, key)[k].message = message

\* a reminder with this key and message has been sent to the channel
Delivered(key, message) ==
    \E k \in DOMAIN posted : posted[k].key = key /\ posted[k].message = message

\* C23: a start-up takes every reminder of the file into its replay; a reminder whose
\* time is past when the replay reaches it is sent with the "was supposed to go off at"
\* note; and no second passes while the replay still holds a reminder that is due
C23_MissedDeliveredAtOnce ==
    [][/\ op'.name = "Reboot"
          => \A k \in DOMAIN reminders_json :
                reminders_json[k].items # <<>>
                => \E j \in DOMAIN replay'.queue :
                      /\ replay'.queue[j].key = reminders_json[k].key
                      /\ replay'.queue[j].items = reminders_json[k].items
       /\ (op'.name = "remember_reminders" /\ op'.key < clock)
          => /\ Len(posted') = Len(posted) + 1
             /\ posted'[Len(posted')] = [key |-> op'.key, message |-> op'.message,
                                         by |-> "replay", missed |-> TRUE, at |-> clock,
                                         form |-> op'.form]
       /\ clock' # clock
          => \A k \in DOMAIN replay'.queue : replay'.queue[k].key >= clock'
             \/ op'.name = "Reboot"
       /\ op'.name = "Tick"
          => \A k \in DOMAIN replay.queue : replay.queue[k].key > clock]_vars

\* C23 witness: a reminder made by remind went past its time while the process was
\* down and was sent with the note by the replay of the next start
C23_MissedAfterDowntime ==
    /\ op.name = "remember_reminders"
    /\ restarts = 1
    /\ posted[Len(posted)].missed
    /\ posted[Len(posted)].key > RemindStart

\* C24: while a remind command is in its sleep, reminders.json holds its reminder
C24_PersistedWhileWaiting ==
    \A n \in DOMAIN sleeping : Persisted(sleeping[n].key, sleeping[n].item.message)

\* C25: when the replay has finished, reminders.json holds none of the reminders that
\* have been sent
C25_DeliveredStayAbsent ==
    replay.queue = <<>>
    => \A k \in DOMAIN posted : ~Persisted(posted[k].key, posted[k].message)

C27_SentAtMostOnce ==
    \A k \in DOMAIN sent : sent[k] <= 1

(***************************************************************************)
(* Claims about the pool in memory and in maps.db (SpecCatalog)            *)
(***************************************************************************)
\* the maps whose row of the info table has in_pool set
StoredPool == {m \in DOMAIN db.info : db.info[m].in_pool}

\* C31: between the commands and the presses of the panel, global_utils.map_pool holds
\* exactly the maps whose stored in_pool flag is set
C31_PoolWriteThrough ==
    map_pool = StoredPool

\* C35: every map of the pool is a key of map_preferences and of map_weights, whatever
\* order add-map, remove-map and the presses of the panel come in
C35_PoolItemsKnown ==
    /\ map_pool \subseteq DOMAIN map_preferences
    /\ map_pool \subseteq WeightKeys(map_weights)

\* C35 witness: Apply was pressed after remove-map had deleted the row of a map that
\* the panel held, and the map is in the pool
C35_AppliedAfterRemove ==
    /\ op.name = "apply_changes"
    /\ \E m \in map_pool : m \notin DOMAIN db.info

(***************************************************************************)
(* Further claims about the reminder sweep (SpecSweep)                     *)
(***************************************************************************)
\* C32: a sweep classifies every event that get_all_events returned, also after an
\* event whose reminder could not be built
C32_SweepGoesOn ==
    [][op'.name = "eventreminders"
       => \A i \in DOMAIN get_all_events :
             get_all_events[i].id \in {r.id : r \in op'.results}]_vars

\* C36: a sweep leaves every event of the production guild as it is, classifies none
\* of them and sends no reminder for any of them
C36_ProductionUntouched ==
    [][op'.name = "eventreminders"
       => \A i \in DOMAIN events :
             events[i].guild_id = val_server_id
             => /\ i \in DOMAIN events' /\ events'[i] = events[i]
                /\ events[i].id \notin {r.id : r \in op'.results}
                /\ \A p \in op'.posted : p[1] # events[i].id
                /\ \A t \in {"prestart", "start"} :
                      Count(sent', <<events[i].id, t>>) = 0]_vars

\* C36 witness: a sweep has sent the reminder of a debug event while the production
\* guild holds an event that is as close to its start
C36_ProductionEventDue ==
    /\ op.name = "eventreminders"
    /\ op.posted # {}
    /\ \E i \in DOMAIN events :
          /\ events[i].guild_id = val_server_id
          /\ ReminderType(events[i].start_time - clock) # ""

\* C39: an event for which a sweep has sent the start reminder and written its line is
\* not scheduled any more when the sweep is through: it was started before the send
C39_StartedBeforeStartReminder ==
    op.name = "eventreminders"
    => \A p \in op.posted :
          p[2] = "start"
          => \A i \in DOMAIN events : events[i].id = p[1] => events[i].status # "scheduled"

\* C39 witness: a sweep has sent the start reminder of an event that was scheduled
\* when the sweep fetched it
C39_ScheduledEventStarted ==
    /\ op.name = "eventreminders"
    /\ \E r \in op.results :
          /\ r.reminder_type = "start"
          /\ r.before = "scheduled"
          /\ <<r.id, "start">> \in op.posted
          /\ LogMessage("start", CHOOSE e \in {events[i] : i \in DOMAIN events} : e.id = r.id)
                \in op.logged

(***************************************************************************)
(* Claims about the sweep over twin events (SpecTwins)                     *)
(***************************************************************************)
\* C33: a sweep that finds a reminder due for an event, and does not fail, has sent
\* that reminder for that event, in this sweep or in an earlier one, whatever lines
\* the log holds for other events
C33_EachEntryReminded ==
    (op.name = "eventreminders" /\ ~op.raised)
    => \A r \in op.results :
          r.reminder_type # "" => Count(sent, <<r.id, r.reminder_type>>) >= 1

(***************************************************************************)
(* Claims about add-practices given repeatedly (SpecDerive)                *)
(***************************************************************************)
\* C34: every practice that add-practices creates is a day before or a day after an
\* event of the guild that is named Premier and starts on a Thursday, and has its map
C34_DerivedFromThursdayPremier ==
    [][op'.name = "addpractices"
       => \A k \in DOMAIN op'.created :
             \E i \in DOMAIN events :
                /\ events[i].guild_id = op'.guild_id
                /\ events[i].name = "Premier"
                /\ Weekday(DateOf(events[i].start_time)) = 3
                /\ events[i].description = op'.created[k].description
                /\ \E j \in 1..2 :
                      PracticeTimes(events[i].start_time)[j] = op'.created[k].start_time]_vars

(***************************************************************************)
(* Claims about one evening of the sweep (SpecEvening)                     *)
(***************************************************************************)
\* the sweep of the instant t has run
SweepDone(t) == clock > t \/ (clock = t /\ "eventreminders" \in ran)

\* C37: an event of the debug guild that starts at 22:00 or at 23:00 has its prestart
\* reminder, once, from the sweep two seconds after the hour before its start, its
\* start reminder, once, and its start from the sweep two seconds after its start,
\* and its end from the sweep an hour later
C37_RemindedStartedEnded ==
    \A i \in DOMAIN events :
       LET e == events[i]
           due(t) == TimeOfDay(t) \in {21 * Hour + 2, 22 * Hour + 2, 23 * Hour + 2}
       IN HasPremier(e.name)
          => /\ Count(sent, <<e.id, "prestart">>) <= 1
             /\ Count(sent, <<e.id, "start">>) <= 1
             /\ SweepDone(e.start_time - Hour + 2)
                => Count(sent, <<e.id, "prestart">>) = 1
             /\ SweepDone(e.start_time + 2)
                => /\ Count(sent, <<e.id, "start">>) = 1
                   /\ e.status # "scheduled"
             /\ (due(e.start_time + Hour + 2) /\ SweepDone(e.start_time + Hour + 2))
                => e.status = "ended"

(***************************************************************************)
(* Claims about a replay that is started again (SpecReady)                 *)
(***************************************************************************)
\* C38: a reminder that a remind command of the running process holds as its tuple is
\* not sent both by the timer of that command and by the replay
C38_DeliveredAtMostOnce ==
    \A i, j \in DOMAIN posted :
       (posted[i].by = "replay" /\ posted[i].form = "tuple" /\ posted[j].by = "remind")
       => ~(posted[i].key = posted[j].key /\ posted[i].message = posted[j].message)

(***************************************************************************)
(* Claims about the sweep repeated over a day (SpecCleanup)                *)
(***************************************************************************)
\* the event is on a swept calendar and its start is an hour or more in the past
Overdue(event) ==
    /\ event.guild_id = debug_server_id
    /\ HasPremier(event.name)
    /\ event.start_time + Hour <= clock

====
